---------------------------- MODULE Spec2Model ----------------------------
(***************************************************************************)
(* A model of bit-torrust: the peer session's download_piece loop          *)
(* (src/src/peer.rs), the Bencode codec (src/crates/bencode/src/lib.rs)    *)
(* and the metainfo projection with its canonical re-encoding              *)
(* (src/src/torrent.rs).                                                   *)
(*                                                                         *)
(* Bytes are one-character strings ("d", ":", "7"), and in the peer wire   *)
(* protocol their values 0..255; a byte sequence is a sequence of them.    *)
(* Every specification leaves the variables of the other components at     *)
(* their initial values.                                                   *)
(***************************************************************************)
EXTENDS Integers, Sequences, FiniteSets, TLC

VARIABLES
    pc,              \* download_piece: "idle", "loop", "returned" or "aborted"
    info_table,      \* the Info the session borrows: piece_length, file_size, npieces
    piece_index,     \* the argument of download_piece
    requested,       \* peer.rs:216
    piece_received,  \* peer.rs:217, the set of bit positions that are set
    blocks,          \* peer.rs:218, the BinaryHeap's backing vector
    bitfield,        \* PeerConnection.bitfield
    sent,            \* everything written to the connection, in order
    result,          \* what download_piece returned
    ben_pc,          \* codec run: "value", "encoded", "decoded" or "reencoded"
    ben_pred,        \* which byte_mode_key closure the decoder is given
    ben_value,       \* the Bencode value the input is the encoding of
    ben_truncated,   \* the input is a proper prefix of that encoding
    ben_input,       \* the bytes handed to Bencode::from_bytes
    ben_decoded,     \* what from_bytes returned
    ben_output,      \* to_bytes of the decoded value
    torrent,         \* what Torrent::try_from returned for the decoded value
    info_bytes,      \* what Info::to_bytes returned for the projected Info
    info_bytes_again, \* what a second call of Info::to_bytes returned
    odd_frame,       \* download_piece: the last frame read that is none of the nine messages
    interval,        \* TrackerService.interval, in seconds
    peers_result,    \* what get_peers returned
    hs_pc,           \* PeerConnection::new: "start", "written", "done"
    info_hash,       \* the info_hash argument of PeerConnection::new
    hs_reply,        \* the bytes the remote peer answers the handshake with
    hs_sent,         \* the bytes written to the connection
    hs_read,         \* the bytes read from the connection
    hs_result,       \* what PeerConnection::new returned
    wire_frames,     \* the frames the remote peer put on the connection
    stream,          \* the bytes of the connection not read yet
    wire_log         \* the reads and writes on the connection, in order

peer_vars == <<pc, info_table, piece_index, requested, piece_received, blocks,
               bitfield, sent, result, odd_frame>>

ben_vars == <<ben_pc, ben_pred, ben_value, ben_truncated, ben_input,
              ben_decoded, ben_output>>

tor_vars == <<torrent, info_bytes, info_bytes_again>>

trk_vars == <<interval, peers_result>>

hs_vars == <<hs_pc, info_hash, hs_reply, hs_sent, hs_read, hs_result>>

wire_vars == <<wire_frames, stream, wire_log>>

vars == <<peer_vars, ben_vars, tor_vars, trk_vars, hs_vars, wire_vars>>

(***************************************************************************)
(* Small helpers                                                           *)
(***************************************************************************)
Range(s) == {s[i] : i \in 1..Len(s)}

RECURSIVE Flatten(_)
Flatten(ss) == IF ss = <<>> THEN <<>> ELSE Head(ss) \o Flatten(Tail(ss))

None == [some |-> FALSE]
Some(v) == [some |-> TRUE, v |-> v]

(***************************************************************************)
(* Peer session: download_piece                                            *)
(***************************************************************************)
PIECE_BLOCK_LEN == 16384

\* Bounds of the model.
MaxBlocks == 3     \* Piece messages one call buffers before the model stops feeding it

\* The Info values a session is run against: piece length, total file length
\* and the number of piece hashes.
Infos ==
    { [piece_length |-> 10000, file_size |-> 10000, npieces |-> 1],
      [piece_length |-> 16384, file_size |-> 10000, npieces |-> 1],
      [piece_length |-> 16384, file_size |-> 32768, npieces |-> 2],
      [piece_length |-> 20000, file_size |-> 40000, npieces |-> 2],
      [piece_length |-> 32768, file_size |-> 40000, npieces |-> 2],
      [piece_length |-> 49152, file_size |-> 50000, npieces |-> 2] }

\* What the remote peer may put on the wire.
Payloads == { <<"x">>, <<"y", "z">> }
Begins == { 0, PIECE_BLOCK_LEN, PIECE_BLOCK_LEN + 5, 2 * PIECE_BLOCK_LEN,
            3 * PIECE_BLOCK_LEN }
Bitfields == { <<"x">>, <<"y">> }
IgnoredMessages ==
    { [type |-> "Choke"], [type |-> "Interested"], [type |-> "NotInterested"],
      [type |-> "Have", index |-> 0],
      [type |-> "Request", index |-> 0, begin |-> 0, length |-> PIECE_BLOCK_LEN],
      [type |-> "Cancel", index |-> 0, begin |-> 0, length |-> PIECE_BLOCK_LEN] }

\* peer.rs:214-215, "A rounded up division!"
block_number(piece_len, file_size) ==
    (piece_len \div PIECE_BLOCK_LEN)
        + (IF file_size % PIECE_BLOCK_LEN = 0 THEN 1 ELSE 0)

\* peer.rs:225-237, the length field of the Request for block i
request_length(info, index, i) ==
    LET last_piece == index = info.npieces - 1
        irregular_blocks == info.file_size % PIECE_BLOCK_LEN # 0
        bn == block_number(info.piece_length, info.file_size)
    IN  IF ~last_piece /\ irregular_blocks /\ i = bn - 1
        THEN PIECE_BLOCK_LEN
        ELSE info.file_size % PIECE_BLOCK_LEN

\* the batch written from the last block of the piece down to the first
requests_descending(info, index) ==
    LET bn == block_number(info.piece_length, info.file_size)
    IN  [ k \in 1..bn |->
            [type |-> "Request", index |-> index,
             begin |-> (bn - k) * PIECE_BLOCK_LEN,
             length |-> request_length(info, index, bn - k)] ]

\* peer.rs:227-240, the batch written on the first Unchoke
requests(info, index) ==
    [ k \in 1..block_number(info.piece_length, info.file_size) |->
        [type |-> "Request", index |-> index,
         begin |-> (k - 1) * PIECE_BLOCK_LEN,
         length |-> request_length(info, index, k - 1)] ]

\* Ord for BlockData (peer.rs:301-308): by index, then begin
BlockLess(a, b) ==
    \/ a.index < b.index
    \/ a.index = b.index /\ a.begin < b.begin

Swap(data, i, j) == [data EXCEPT ![i] = data[j], ![j] = data[i]]

\* BinaryHeap::push on a heap of Reverse<BlockData> (peer.rs:251-255): the
\* element is appended and sifted up while it is smaller than its parent.
RECURSIVE SiftUp(_, _)
SiftUp(data, pos) ==
    IF pos = 1 THEN data
    ELSE LET parent == pos \div 2
         IN  IF BlockLess(data[pos], data[parent])
             THEN SiftUp(Swap(data, pos, parent), parent)
             ELSE data

heap_push(data, block) == SiftUp(Append(data, block), Len(data) + 1)

\* peer.rs:265-274: blocks.into_iter() walks the backing vector as it lies;
\* position i must hold the block with begin = i * PIECE_BLOCK_LEN.
assemble(data) ==
    IF \E i \in 1..Len(data) : data[i].begin # (i - 1) * PIECE_BLOCK_LEN
    THEN [ok |-> FALSE, err |-> "DownloadPieceFailed"]
    ELSE [ok |-> TRUE, index |-> piece_index,
          piece |-> Flatten([i \in 1..Len(data) |-> data[i].block])]

NoResult == [ok |-> FALSE, err |-> "none"]

BlockNumber == block_number(info_table.piece_length, info_table.file_size)

PeerInit ==
    /\ pc = "idle"
    /\ info_table \in Infos
    /\ piece_index = 0
    /\ requested = FALSE
    /\ piece_received = {}
    /\ blocks = <<>>
    /\ bitfield = None
    /\ sent = <<>>
    /\ result = NoResult
    /\ odd_frame = None

\* peer.rs:207-218
download_piece_begin ==
    /\ pc = "idle"
    /\ \E idx \in 0..(info_table.npieces - 1) : piece_index' = idx
    /\ sent' = Append(sent, [type |-> "Interested"])
    /\ requested' = FALSE
    /\ piece_received' = {}
    /\ blocks' = <<>>
    /\ pc' = "loop"
    /\ UNCHANGED <<info_table, bitfield, result, odd_frame>>

\* a connection that keeps the first bitfield it was sent
on_bitfield_first(b) ==
    /\ bitfield' = IF bitfield.some THEN bitfield ELSE Some(b)
    /\ UNCHANGED <<pc, requested, piece_received, blocks, sent, result>>

\* peer.rs:221, the Bitfield arm
on_bitfield(b) ==
    /\ bitfield' = Some(b)
    /\ UNCHANGED <<pc, requested, piece_received, blocks, sent, result>>

\* peer.rs:221
recv_bitfield ==
    /\ pc = "loop"
    /\ \E b \in Bitfields : on_bitfield(b)
    /\ UNCHANGED <<info_table, piece_index, odd_frame>>

\* peer.rs:222-243, the Unchoke arm
on_unchoke ==
    /\ IF ~requested
       THEN /\ sent' = sent \o requests(info_table, piece_index)
            /\ requested' = TRUE
       ELSE UNCHANGED <<sent, requested>>
    /\ UNCHANGED <<pc, piece_received, blocks, bitfield, result>>

\* peer.rs:222-243
recv_unchoke ==
    /\ pc = "loop"
    /\ on_unchoke
    /\ UNCHANGED <<info_table, piece_index, odd_frame>>

\* peer.rs:244-259, the Piece arm, and, when the loop breaks, 264-278
on_piece(index, begin, block) ==
    LET bit == begin \div PIECE_BLOCK_LEN IN
    /\ IF bit >= BlockNumber
       THEN \* BitVec::set asserts the position is in range: the thread panics
            /\ pc' = "aborted"
            /\ result' = [ok |-> FALSE, err |-> "panic"]
            /\ UNCHANGED <<piece_received, blocks>>
       ELSE LET received == piece_received \cup {bit}
                heap == heap_push(blocks, [index |-> index, begin |-> begin,
                                           block |-> block])
            IN  /\ piece_received' = received
                /\ blocks' = heap
                /\ IF received = 0..(BlockNumber - 1)
                   THEN /\ pc' = "returned"
                        /\ result' = assemble(heap)
                   ELSE UNCHANGED <<pc, result>>
    /\ UNCHANGED <<requested, bitfield, sent>>

\* peer.rs:244-259 and, when the loop breaks, 264-278
recv_piece ==
    /\ pc = "loop"
    /\ Len(blocks) < MaxBlocks
    /\ \E index \in {piece_index, piece_index + 1}, begin \in Begins, block \in Payloads :
         on_piece(index, begin, block)
    /\ UNCHANGED <<info_table, piece_index, odd_frame>>

\* peer.rs:260, and the keep-alive of peer.rs:103-106
recv_other ==
    /\ pc = "loop"
    /\ \E m \in IgnoredMessages \cup {[type |-> "KeepAlive"]} : TRUE
    /\ UNCHANGED peer_vars

\* frames whose tag is none of the nine message tags: length prefix and tag
UnknownTags == {9, 20, 255}
OddFrames == { [len |-> l, tag |-> t] : l \in {1, 5, 13}, t \in UnknownTags }

\* receive_decode taking an unknown tag for a keep-alive
receive_decode_header_lenient(len, tag) ==
    IF len = 0 \/ tag \notin 0..8 THEN [ok |-> TRUE, kind |-> "KeepAlive"]
    ELSE [ok |-> TRUE, kind |-> "Message"]

\* receive_decode on a frame header (peer.rs:98-147): what the match on the
\* length prefix and the tag gives, the payload reads left aside
receive_decode_header(len, tag) ==
    IF len = 0 THEN [ok |-> TRUE, kind |-> "KeepAlive"]
    ELSE IF tag \in 0..8 THEN [ok |-> TRUE, kind |-> "Message"]
    ELSE [ok |-> FALSE, err |-> "TcpStreamGarbageReceived"]

\* peer.rs:220 with peer.rs:145: a frame with an unknown tag is read
recv_unknown_tag ==
    /\ pc = "loop"
    /\ \E f \in OddFrames :
         /\ odd_frame' = Some(f)
         /\ IF receive_decode_header(f.len, f.tag).ok
            THEN UNCHANGED <<pc, result>>
            ELSE /\ pc' = "returned"
                 /\ result' = receive_decode_header(f.len, f.tag)
    /\ UNCHANGED <<info_table, piece_index, requested, piece_received, blocks,
                   bitfield, sent>>

\* peer.rs:220, the ? on receive_decode when a read fails
recv_error ==
    /\ pc = "loop"
    /\ result' = [ok |-> FALSE, err |-> "TcpStreamConnectionFailure"]
    /\ pc' = "returned"
    /\ UNCHANGED <<info_table, piece_index, requested, piece_received, blocks,
                   bitfield, sent, odd_frame>>

(***************************************************************************)
(* Bencode codec (src/crates/bencode/src/lib.rs)                           *)
(***************************************************************************)
\* Results of the decoding functions: BenResult<(T, &[u8])>, or a panic
Ok(v, rest) == [ok |-> TRUE, v |-> v, rest |-> rest]
Err(e) == [ok |-> FALSE, err |-> e]
MissingToken(c) == [ok |-> FALSE, err |-> "MissingToken", token |-> c]
UnexpectedToken(c) == [ok |-> FALSE, err |-> "UnexpectedToken", token |-> c]
Panic == [ok |-> FALSE, err |-> "panic"]

\* The enum Bencode and BencodeDictValues (lib.rs:7-12, 163-168).  An IndexMap
\* is the sequence of its entries in insertion order.
BString(s) == [t |-> "String", s |-> s]
BNumber(n) == [t |-> "Number", n |-> n]
BList(l) == [t |-> "List", l |-> l]
BDict(d) == [t |-> "Dict", d |-> d]
DvBencode(b) == [t |-> "Bencode", b |-> b]
DvBytes(c) == [t |-> "Bytes", c |-> c]
Entry(k, v) == [k |-> k, v |-> v]

Digits == <<"0", "1", "2", "3", "4", "5", "6", "7", "8", "9">>
IsDigit(c) == c \in Range(Digits)
DigitVal(c) == (CHOOSE d \in 1..Len(Digits) : Digits[d] = c) - 1

\* format!("{}", n) for an unsigned n
RECURSIVE ToDecimal(_)
ToDecimal(n) ==
    IF n < Len(Digits) THEN <<Digits[n + 1]>>
    ELSE ToDecimal(n \div Len(Digits)) \o <<Digits[(n % Len(Digits)) + 1]>>

\* an i64 printed without its sign
FormatInt_unsigned(i) == IF i < 0 THEN ToDecimal(-i) ELSE ToDecimal(i)

\* format!("{}", i) for an i64
FormatInt(i) == IF i < 0 THEN <<"-">> \o ToDecimal(-i) ELSE ToDecimal(i)

RECURSIVE DigitsValue(_, _)
DigitsValue(s, acc) ==
    IF s = <<>> THEN acc
    ELSE DigitsValue(Tail(s), acc * Len(Digits) + DigitVal(Head(s)))

AllDigits(s) == s # <<>> /\ \A i \in 1..Len(s) : IsDigit(s[i])

\* str::parse::<usize>: an optional '+', then one or more digits
parse_usize(s) ==
    LET body == IF s # <<>> /\ Head(s) = "+" THEN Tail(s) ELSE s
    IN  IF AllDigits(body) THEN Ok(DigitsValue(body, 0), <<>>)
        ELSE Err("ParseIntError")

\* str::parse::<i64>: an optional sign, then one or more digits
\* the decimal digits of i64::MAX, 9223372036854775807
I64_MAX_DIGITS == 19

\* a digit text longer than i64::MAX's overflows (the runs hold no text of
\* exactly that many digits, and none with leading zeros)
parse_i64(s) ==
    LET signed == s # <<>> /\ Head(s) \in {"+", "-"}
        body == IF signed THEN Tail(s) ELSE s
    IN  IF ~AllDigits(body) THEN Err("ParseIntError")
        ELSE IF Len(body) > I64_MAX_DIGITS THEN Err("ParseIntError")
        ELSE IF signed /\ Head(s) = "-" THEN Ok(-DigitsValue(body, 0), <<>>)
        ELSE Ok(DigitsValue(body, 0), <<>>)

\* the bytes of the runs above 0x7F; none of them is part of a UTF-8 text here
HighBytes == {"xFF", "xA8", "xC0", "xE1"}

\* std::str::from_utf8 succeeds
IsUtf8(bytes) == \A i \in 1..Len(bytes) : bytes[i] \notin HighBytes

\* slice.iter().position(|&x| x == c), 1-based, 0 when absent
Position(bytes, c) ==
    IF \E i \in 1..Len(bytes) : bytes[i] = c
    THEN CHOOSE i \in 1..Len(bytes) :
             bytes[i] = c /\ \A j \in 1..(i - 1) : bytes[j] # c
    ELSE 0

\* format!("{}:{}", s.len(), s) (lib.rs:17, 34)
string_to_bytes(s) == ToDecimal(Len(s)) \o <<":">> \o s

\* lib.rs:39-44
bytez_to_bytes(bytez) ==
    LET byte_size == Len(Flatten(bytez))
    IN  ToDecimal(byte_size) \o <<":">> \o Flatten(bytez)

\* Bencode::to_bytes (lib.rs:15-52)
RECURSIVE to_bytes(_)
to_bytes(v) ==
    CASE v.t = "String" -> string_to_bytes(v.s)
      [] v.t = "Number" -> <<"i">> \o FormatInt(v.n) \o <<"e">>
      [] v.t = "List" ->
            <<"l">> \o Flatten([i \in 1..Len(v.l) |-> to_bytes(v.l[i])]) \o <<"e">>
      [] v.t = "Dict" ->
            <<"d">>
            \o Flatten([i \in 1..Len(v.d) |->
                   string_to_bytes(v.d[i].k)
                   \o (IF v.d[i].v.t = "Bencode"
                       THEN to_bytes(v.d[i].v.b)
                       ELSE bytez_to_bytes(v.d[i].v.c))])
            \o <<"e">>

\* The byte-mode predicates the program passes to from_bytes:
\* torrent.rs:94-97 and 102-105 (pieces -> 20), tracker.rs:62-65 (peers -> 6)
byte_mode_key(pred, key) ==
    IF pred = "torrent" /\ key = <<"p", "i", "e", "c", "e", "s">> THEN Some(20)
    ELSE IF pred = "tracker" /\ key = <<"p", "e", "e", "r", "s">> THEN Some(6)
    ELSE None

\* Bencode::bendecode_s (lib.rs:68-82)
bendecode_s(enc) ==
    LET colon == Position(enc, ":")
        length_string == SubSeq(enc, 1, colon - 1)
        length == parse_usize(length_string)
    IN  IF colon = 0 THEN MissingToken(":")
        ELSE IF ~IsUtf8(length_string) THEN Err("Utf8Error")
        ELSE IF ~length.ok THEN length
        ELSE IF colon + length.v > Len(enc) THEN Panic
        ELSE IF ~IsUtf8(SubSeq(enc, colon + 1, colon + length.v))
             THEN Err("Utf8Error")
        ELSE Ok(BString(SubSeq(enc, colon + 1, colon + length.v)),
                SubSeq(enc, colon + length.v + 1, Len(enc)))

\* Bencode::bendecode_i (lib.rs:84-92); parse::<i64>().unwrap() panics
bendecode_i(enc) ==
    LET ending == Position(enc, "e")
        i_string == SubSeq(enc, 1, ending - 1)
        number == parse_i64(i_string)
    IN  IF ending = 0 THEN MissingToken("e")
        ELSE IF ~IsUtf8(i_string) THEN Err("Utf8Error")
        ELSE IF ~number.ok THEN Panic
        ELSE Ok(BNumber(number.v), SubSeq(enc, ending + 1, Len(enc)))

\* bytes.chunks(chunk_size) of a slice whose length is a multiple of it
\* Chunks with an exclusive upper bound one too small: the last chunk is lost
Chunks_short(bytes, chunk_size) ==
    [i \in 1..((Len(bytes) \div chunk_size) - 1) |->
        SubSeq(bytes, (i - 1) * chunk_size + 1, i * chunk_size)]

Chunks(bytes, chunk_size) ==
    [i \in 1..(Len(bytes) \div chunk_size) |->
        SubSeq(bytes, (i - 1) * chunk_size + 1, i * chunk_size)]

\* Bencode::bendecode_bytez (lib.rs:108-132)
bendecode_bytez(enc, chunk_size) ==
    LET colon == Position(enc, ":")
        length_string == SubSeq(enc, 1, colon - 1)
        length == parse_usize(length_string)
    IN  IF colon = 0 THEN MissingToken(":")
        ELSE IF ~IsUtf8(length_string) THEN Err("Utf8Error")
        ELSE IF ~length.ok THEN length
        ELSE IF chunk_size = 0 THEN Panic
        ELSE IF length.v % chunk_size # 0 THEN Err("UnexpectedTruncationError")
        ELSE IF colon + length.v > Len(enc) THEN Panic
        ELSE Ok(Chunks(SubSeq(enc, colon + 1, colon + length.v), chunk_size),
                SubSeq(enc, colon + length.v + 1, Len(enc)))

\* IndexMap::insert (lib.rs:148, 153): a new key goes last, a key already
\* present keeps its place and takes the new value
\* An insert that puts a new key in front of the older ones
IndexMapInsert_front(dict, key, value) ==
    IF \E i \in 1..Len(dict) : dict[i].k = key
    THEN [i \in 1..Len(dict) |->
            IF dict[i].k = key THEN Entry(key, value) ELSE dict[i]]
    ELSE <<Entry(key, value)>> \o dict

IndexMapInsert(dict, key, value) ==
    IF \E i \in 1..Len(dict) : dict[i].k = key
    THEN [i \in 1..Len(dict) |->
            IF dict[i].k = key THEN Entry(key, value) ELSE dict[i]]
    ELSE Append(dict, Entry(key, value))

RECURSIVE from_bytes(_, _), bendecode_l_loop(_, _, _), bendecode_d_loop(_, _, _)

\* Bencode::from_bytes (lib.rs:54-66); encoded_value[0] panics on no input
from_bytes(enc, pred) ==
    IF enc = <<>> THEN Panic
    ELSE CASE IsDigit(enc[1]) -> bendecode_s(enc)
           [] enc[1] = "i" -> bendecode_i(Tail(enc))
           [] enc[1] = "l" -> bendecode_l_loop(<<>>, Tail(enc), pred)
           [] enc[1] = "d" -> bendecode_d_loop(<<>>, Tail(enc), pred)
           [] enc[1] = "e" -> Err("MisplacedClosingError")
           [] OTHER -> UnexpectedToken(enc[1])

\* Bencode::bendecode_l (lib.rs:94-106); &rem[1..] panics on an empty rem
bendecode_l_loop(list, rem, pred) ==
    IF rem = <<>> THEN Panic
    ELSE IF rem[1] = "e" THEN Ok(BList(list), Tail(rem))
    ELSE LET r == from_bytes(rem, pred)
         IN  IF ~r.ok THEN r
             ELSE bendecode_l_loop(Append(list, r.v), r.rest, pred)

\* Bencode::bendecode_d (lib.rs:134-160); &rem[1..] panics on an empty rem
bendecode_d_loop(dict, rem, pred) ==
    IF rem = <<>> THEN Panic
    ELSE IF rem[1] = "e" THEN Ok(BDict(dict), Tail(rem))
    ELSE LET key == bendecode_s(rem)
         IN  IF ~key.ok THEN key
             ELSE LET mode == byte_mode_key(pred, key.v.s)
                  IN  IF ~mode.some
                      THEN LET r == from_bytes(key.rest, pred)
                           IN  IF ~r.ok THEN r
                               ELSE bendecode_d_loop(
                                        IndexMapInsert(dict, key.v.s, DvBencode(r.v)),
                                        r.rest, pred)
                      ELSE LET r == bendecode_bytez(key.rest, mode.v)
                           IN  IF ~r.ok THEN r
                               ELSE bendecode_d_loop(
                                        IndexMapInsert(dict, key.v.s, DvBytes(r.v)),
                                        r.rest, pred)

(***************************************************************************)
(* Codec runs: a value is encoded, the bytes (or a proper prefix of them)  *)
(* are decoded, and the decoded value is encoded again.                    *)
(***************************************************************************)
\* Bounds of the generated values
MaxListLen == 2    \* elements of a generated flat list
MaxDictLen == 2    \* entries of a generated flat dict
MaxDepth == 2      \* nesting depth of the generated nested values

KeyA == <<"a">>
KeyPieces == <<"p", "i", "e", "c", "e", "s">>
KeyPeers == <<"p", "e", "e", "r", "s">>
Keys == {KeyA, KeyPieces, KeyPeers}

HashA == <<"e", ":", "1", "xFF", "d", "i", "l", "0", "a", "b",
           "e", ":", "1", "xFF", "d", "i", "l", "0", "a", "b">>
HashB == <<"0", "1", "2", "3", "4", "5", "6", "7", "8", "9",
           "i", "1", "e", "e", "e", ":", ":", "l", "d", "-">>
PeerA == <<"1", ":", "e", "xFF", "i", "d">>
PeerB == <<"a", "b", "c", "d", "e", "e">>

Atoms == { BString(<<>>), BString(<<"a">>), BString(<<"e", ":", "1">>),
           BNumber(0), BNumber(-42), BNumber(105) }
DictAtoms == { BString(<<"e", ":", "1">>), BNumber(-42) }
ByteVals == { <<>>, <<HashA>>, <<HashB, HashA>>, <<HashA \o HashB>>,
              <<PeerA>>, <<PeerA, PeerB>>, <<<<"x", "y", "z">>>> }

SeqsUpTo(S, n) == UNION { [1..k -> S] : k \in 0..n }

FlatLists == { BList(l) : l \in SeqsUpTo(Atoms, MaxListLen) }

FlatEntries ==
    { Entry(k, v) : k \in Keys,
                    v \in {DvBencode(a) : a \in DictAtoms}
                            \cup {DvBytes(c) : c \in ByteVals} }

FlatDicts ==
    { BDict(d) : d \in { e \in SeqsUpTo(FlatEntries, MaxDictLen) :
                            \A i, j \in 1..Len(e) : i # j => e[i].k # e[j].k } }

Wrap(v) ==
    { BList(<<v>>),
      BList(<<BNumber(7), v>>),
      BDict(<<Entry(KeyA, DvBencode(v))>>),
      BDict(<<Entry(KeyPieces, DvBytes(<<HashB>>)), Entry(<<>>, DvBencode(v))>>) }

RECURSIVE Nested(_)
Nested(depth) ==
    IF depth = 0 THEN Atoms
    ELSE LET sub == Nested(depth - 1)
         IN  sub \cup UNION { Wrap(v) : v \in sub }

\* Source trees with a repeated key: what a metainfo file may hold, though
\* no IndexMap does
DupDicts ==
    { BDict(<<Entry(KeyA, DvBencode(BNumber(1))),
              Entry(KeyPeers, DvBencode(BNumber(2))),
              Entry(KeyA, DvBencode(BNumber(3)))>>),
      BDict(<<Entry(KeyA, DvBencode(BNumber(1))),
              Entry(KeyA, DvBencode(BString(<<"a">>)))>>) }

Values == FlatLists \cup FlatDicts \cup Nested(MaxDepth)

\* The values whose encodings are also cut short
CutValues == Nested(1) \cup { BDict(<<Entry(KeyPeers, DvBytes(<<PeerA>>))>>) }

Preds == {"torrent", "tracker"}

NoValue == BString(<<>>)

BenIdle ==
    /\ ben_pc = "idle"
    /\ ben_pred = "torrent"
    /\ ben_value = NoValue
    /\ ben_truncated = FALSE
    /\ ben_input = <<>>
    /\ ben_decoded = Err("none")
    /\ ben_output = <<>>

BenInit ==
    /\ ben_pc = "value"
    /\ ben_pred \in Preds
    /\ ben_value \in Values \cup DupDicts
    /\ ben_truncated = FALSE
    /\ ben_input = <<>>
    /\ ben_decoded = Err("none")
    /\ ben_output = <<>>

\* Bencode::to_bytes on the value; the input is the encoding or a prefix of it
ben_encode ==
    /\ ben_pc = "value"
    /\ LET enc == to_bytes(ben_value)
       IN  \E n \in (IF ben_value \in CutValues THEN 0..Len(enc) ELSE {Len(enc)}) :
               /\ ben_input' = SubSeq(enc, 1, n)
               /\ ben_truncated' = (n < Len(enc))
    /\ ben_pc' = "encoded"
    /\ UNCHANGED <<ben_pred, ben_value, ben_decoded, ben_output>>

\* Bencode::from_bytes on the input
ben_decode ==
    /\ ben_pc = "encoded"
    /\ ben_decoded' = from_bytes(ben_input, ben_pred)
    /\ ben_pc' = "decoded"
    /\ UNCHANGED <<ben_pred, ben_value, ben_truncated, ben_input, ben_output>>

\* Bencode::to_bytes on what was decoded
ben_reencode ==
    /\ ben_pc = "decoded"
    /\ ben_decoded.ok
    /\ ben_output' = to_bytes(ben_decoded.v)
    /\ ben_pc' = "reencoded"
    /\ UNCHANGED <<ben_pred, ben_value, ben_truncated, ben_input, ben_decoded>>

(***************************************************************************)
(* Metainfo projection and canonical re-encoding (src/src/torrent.rs)      *)
(***************************************************************************)
KeyAnnounce == <<"a", "n", "n", "o", "u", "n", "c", "e">>
KeyInfo == <<"i", "n", "f", "o">>
KeyName == <<"n", "a", "m", "e">>
KeyPieceLength == <<"p", "i", "e", "c", "e", " ", "l", "e", "n", "g", "t", "h">>
KeyLength == <<"l", "e", "n", "g", "t", "h">>
KeyFiles == <<"f", "i", "l", "e", "s">>
KeyPath == <<"p", "a", "t", "h">>
KeyPrivate == <<"p", "r", "i", "v", "a", "t", "e">>

InvalidTorrentFile(reason) ==
    [ok |-> FALSE, err |-> "InvalidTorrentFile", reason |-> reason]
OkVal(v) == [ok |-> TRUE, v |-> v]

\* IndexMap::get
IndexMapGet(dict, key) ==
    IF \E i \in 1..Len(dict) : dict[i].k = key
    THEN Some((CHOOSE e \in Range(dict) : e.k = key).v)
    ELSE None

IsBencode(opt, tag) ==
    opt.some /\ opt.v.t = "Bencode" /\ opt.v.b.t = tag

\* `x as usize` (torrent.rs:206, 253, 266): the 64 bits of x, kept here as
\* the signed number with that bit pattern and printed unsigned by FormatUsize
AsUsize(x) == x

TwoPow64 == <<"1", "8", "4", "4", "6", "7", "4", "4", "0", "7",
              "3", "7", "0", "9", "5", "5", "1", "6", "1", "6">>

RECURSIVE SubDigits(_, _)
\* the decimal text ds, less n
SubDigits(ds, n) ==
    IF n = 0 \/ ds = <<>> THEN ds
    ELSE LET d == DigitVal(ds[Len(ds)]) - (n % Len(Digits))
             borrow == IF d < 0 THEN 1 ELSE 0
         IN  SubDigits(SubSeq(ds, 1, Len(ds) - 1), (n \div Len(Digits)) + borrow)
                 \o <<Digits[d + borrow * Len(Digits) + 1]>>

\* format!("{}", u) for a usize u
FormatUsize(u) == IF u >= 0 THEN ToDecimal(u) ELSE SubDigits(TwoPow64, -u)

\* one element of the files list (torrent.rs:263-297)
resolve_file(bencode) ==
    IF bencode.t # "Dict" THEN InvalidTorrentFile("Invalid files list.")
    ELSE LET length == IndexMapGet(bencode.d, KeyLength)
             path == IndexMapGet(bencode.d, KeyPath)
         IN  IF ~IsBencode(length, "Number")
             THEN InvalidTorrentFile("File does not have valid file length.")
             ELSE IF ~IsBencode(path, "List")
             THEN InvalidTorrentFile("File does not have a valid file path.")
             ELSE IF \E i \in 1..Len(path.v.b.l) : path.v.b.l[i].t # "String"
             THEN InvalidTorrentFile("Invalid file path")
             ELSE OkVal([length |-> AsUsize(length.v.b.n),
                         path |-> [i \in 1..Len(path.v.b.l) |-> path.v.b.l[i].s]])

\* resolve_file_type looking for length only in the first entry of the dict
resolve_file_type_first(value) ==
    IF value.t # "Dict"
    THEN InvalidTorrentFile("Files list is not a valid bencoded dictionary.")
    ELSE LET length == IF value.d # <<>> /\ value.d[1].k = KeyLength
                       THEN Some(value.d[1].v) ELSE None
             files == IndexMapGet(value.d, KeyFiles)
         IN  IF IsBencode(length, "Number")
             THEN OkVal([t |-> "SingleFile", length |-> AsUsize(length.v.b.n)])
             ELSE IF IsBencode(files, "List") /\ \A i \in 1..Len(files.v.b.l) : resolve_file(files.v.b.l[i]).ok
             THEN OkVal([t |-> "MultiFile",
                         files |-> [i \in 1..Len(files.v.b.l) |->
                                       resolve_file(files.v.b.l[i]).v]])
             ELSE InvalidTorrentFile("Could not determine file type")

\* Info::resolve_file_type (torrent.rs:240-308)
resolve_file_type(value) ==
    IF value.t # "Dict"
    THEN InvalidTorrentFile("Files list is not a valid bencoded dictionary.")
    ELSE LET length == IndexMapGet(value.d, KeyLength)
             files == IndexMapGet(value.d, KeyFiles)
         IN  IF IsBencode(length, "Number")
             THEN OkVal([t |-> "SingleFile", length |-> AsUsize(length.v.b.n)])
             ELSE IF IsBencode(files, "List")
             THEN LET rs == [i \in 1..Len(files.v.b.l) |-> resolve_file(files.v.b.l[i])]
                  IN  IF \E i \in 1..Len(rs) : ~rs[i].ok
                      THEN rs[CHOOSE i \in 1..Len(rs) :
                                 ~rs[i].ok /\ \A j \in 1..(i - 1) : rs[j].ok]
                      ELSE OkVal([t |-> "MultiFile",
                                  files |-> [i \in 1..Len(rs) |-> rs[i].v]])
             ELSE InvalidTorrentFile("Could not determine file type")

\* parse_info that accepts pieces chunks of any width
parse_info_any_width(value) ==
    IF value.t # "Dict"
    THEN InvalidTorrentFile("Files list is not a valid bencoded dictionary.")
    ELSE LET file_type == resolve_file_type(value)
             name == IndexMapGet(value.d, KeyName)
             piece_length == IndexMapGet(value.d, KeyPieceLength)
             pieces == IndexMapGet(value.d, KeyPieces)
         IN  IF ~file_type.ok THEN file_type
             ELSE IF ~IsBencode(name, "String")
             THEN InvalidTorrentFile("Should have advisory name")
             ELSE IF ~IsBencode(piece_length, "Number")
             THEN InvalidTorrentFile("Should have piece length information.")
             ELSE IF ~(pieces.some /\ pieces.v.t = "Bytes")
             THEN InvalidTorrentFile("No pieces found")
             ELSE OkVal([file_type |-> file_type.v,
                         name |-> name.v.b.s,
                         piece_length |-> AsUsize(piece_length.v.b.n),
                         pieces |-> pieces.v.c])

\* Info::parse_info (torrent.rs:183-239)
parse_info(value) ==
    IF value.t # "Dict"
    THEN InvalidTorrentFile("Files list is not a valid bencoded dictionary.")
    ELSE LET file_type == resolve_file_type(value)
             name == IndexMapGet(value.d, KeyName)
             piece_length == IndexMapGet(value.d, KeyPieceLength)
             pieces == IndexMapGet(value.d, KeyPieces)
         IN  IF ~file_type.ok THEN file_type
             ELSE IF ~IsBencode(name, "String")
             THEN InvalidTorrentFile("Should have advisory name")
             ELSE IF ~IsBencode(piece_length, "Number")
             THEN InvalidTorrentFile("Should have piece length information.")
             ELSE IF ~(pieces.some /\ pieces.v.t = "Bytes")
             THEN InvalidTorrentFile("No pieces found")
             ELSE IF \E i \in 1..Len(pieces.v.c) : Len(pieces.v.c[i]) # 20
             THEN InvalidTorrentFile("Invalid file hash.")
             ELSE OkVal([file_type |-> file_type.v,
                         name |-> name.v.b.s,
                         piece_length |-> AsUsize(piece_length.v.b.n),
                         pieces |-> pieces.v.c])

\* Torrent::try_from (torrent.rs:59-84)
torrent_try_from(value) ==
    IF value.t # "Dict"
    THEN InvalidTorrentFile("Torrent metainfo file should have a bencoded dictionary.")
    ELSE LET ann == IndexMapGet(value.d, KeyAnnounce)
             announce == IF IsBencode(ann, "String") THEN Some(ann.v.b.s) ELSE None
             inf == IndexMapGet(value.d, KeyInfo)
         IN  IF inf.some /\ inf.v.t = "Bencode"
             THEN LET info == parse_info(inf.v.b)
                  IN  IF info.ok THEN OkVal([announce |-> announce, info |-> info.v])
                      ELSE info
             ELSE InvalidTorrentFile("Info dictionary does not exist.")

\* FileType::to_bytes (torrent.rs:158-180)
file_type_to_bytes(file_type) ==
    IF file_type.t = "MultiFile"
    THEN <<"l">>
         \o Flatten([i \in 1..Len(file_type.files) |->
                string_to_bytes(KeyLength) \o <<"i">>
                \o FormatUsize(file_type.files[i].length) \o <<"e">>
                \o Flatten([j \in 1..Len(file_type.files[i].path) |->
                       string_to_bytes(KeyPath)
                       \o string_to_bytes(file_type.files[i].path[j])])])
         \o <<"e">>
    ELSE string_to_bytes(KeyLength) \o <<"i">>
         \o FormatUsize(file_type.length) \o <<"e">>

\* Info::to_bytes (torrent.rs:110-131)
info_to_bytes(info) ==
    <<"d">>
    \o file_type_to_bytes(info.file_type)
    \o string_to_bytes(KeyName) \o string_to_bytes(info.name)
    \o string_to_bytes(KeyPieceLength)
    \o <<"i">> \o FormatUsize(info.piece_length) \o <<"e">>
    \o string_to_bytes(KeyPieces)
    \o ToDecimal(Len(info.pieces) * 20) \o <<":">> \o Flatten(info.pieces)
    \o <<"e">>

\* Info::get_file_length (torrent.rs:151-156)
RECURSIVE SumLengths(_)
SumLengths(files) ==
    IF files = <<>> THEN 0 ELSE Head(files).length + SumLengths(Tail(files))

get_file_length(info) ==
    IF info.file_type.t = "MultiFile" THEN SumLengths(info.file_type.files)
    ELSE info.file_type.length

(***************************************************************************)
(* Metainfo runs: a metainfo tree is written out as a .torrent file's      *)
(* bytes, decoded with pieces -> 20 (Torrent::from_bytes), projected, and  *)
(* the projected Info is re-encoded for the info-hash.                     *)
(***************************************************************************)
InfoLengths == {0, 10000, -1}
InfoNames == { <<"a">>, <<"a", ".", "b">> }
InfoPieceLengths == {PIECE_BLOCK_LEN, 1}
InfoPieces == { <<HashA>>, <<HashB, HashA>> }

\* the four entries of a single-file info dict, in the order Info::to_bytes
\* writes them
InfoEntries(length, name, piece_length, pieces) ==
    << Entry(KeyLength, DvBencode(BNumber(length))),
       Entry(KeyName, DvBencode(BString(name))),
       Entry(KeyPieceLength, DvBencode(BNumber(piece_length))),
       Entry(KeyPieces, DvBytes(pieces)) >>

Reverse(seq) == [i \in 1..Len(seq) |-> seq[Len(seq) + 1 - i]]

InfoDicts ==
    LET base == { InfoEntries(l, n, p, h) :
                    l \in InfoLengths, n \in InfoNames,
                    p \in InfoPieceLengths, h \in InfoPieces }
    IN  { BDict(d) : d \in base
                       \cup { Reverse(b) : b \in base }
                       \cup { Append(b, Entry(KeyPrivate, DvBencode(BNumber(1)))) :
                                b \in base } }

\* one element of a files list: a file dict with keys length, path
FileDict(length, path) ==
    BDict(<< Entry(KeyLength, DvBencode(BNumber(length))),
             Entry(KeyPath, DvBencode(BList([i \in 1..Len(path) |-> BString(path[i])]))) >>)

\* the dict d with the entry of key replaced / removed
WithEntry(d, key, value) ==
    [i \in 1..Len(d) |-> IF d[i].k = key THEN Entry(key, value) ELSE d[i]]
WithoutEntry(d, key) == SelectSeq(d, LAMBDA e : e.k # key)

BaseInfo == InfoEntries(10000, <<"a">>, PIECE_BLOCK_LEN, <<HashA>>)

\* files lists, well-typed and not
FilesLists ==
    { <<FileDict(5, << <<"a">> >>)>>,
      <<FileDict(5, << <<"d">>, <<"f">> >>), FileDict(7, << <<"g">> >>)>>,
      <<BDict(Reverse(FileDict(5, << <<"a">> >>).d))>>,
      <<FileDict(5, <<>>)>>,
      <<>>,
      <<BDict(WithEntry(FileDict(5, <<>>).d, KeyPath,
                        DvBencode(BList(<<BNumber(1)>>))))>>,
      <<BDict(WithEntry(FileDict(5, <<>>).d, KeyPath,
                        DvBencode(BString(<<"a">>))))>>,
      <<BDict(WithEntry(FileDict(5, << <<"a">> >>).d, KeyLength,
                        DvBencode(BString(<<"5">>))))>>,
      <<BDict(WithoutEntry(FileDict(5, << <<"a">> >>).d, KeyLength))>>,
      <<BDict(WithoutEntry(FileDict(5, << <<"a">> >>).d, KeyPath))>>,
      <<FileDict(5, << <<"a">> >>), BNumber(1)>> }

FilesEntry(files) == Entry(KeyFiles, DvBencode(BList(files)))

\* info dicts with files in place of length, and with both
MultiFileInfoDicts ==
    { BDict(<<FilesEntry(f)>> \o Tail(BaseInfo)) : f \in FilesLists }
    \cup { BDict(Reverse(<<FilesEntry(f)>> \o Tail(BaseInfo))) : f \in FilesLists }
    \cup { BDict(<<Head(BaseInfo), FilesEntry(f)>> \o Tail(BaseInfo)) : f \in FilesLists }

\* info dicts with a required field missing, ill-typed or out of range
OddInfoDicts ==
    { BDict(WithoutEntry(BaseInfo, k)) :
        k \in {KeyLength, KeyName, KeyPieceLength, KeyPieces} }
    \cup { BDict(WithEntry(BaseInfo, KeyLength, DvBencode(BString(<<"1">>)))),
           BDict(WithEntry(BaseInfo, KeyName, DvBencode(BNumber(1)))),
           BDict(WithEntry(BaseInfo, KeyName, DvBytes(<<HashA>>))),
           BDict(WithEntry(BaseInfo, KeyPieceLength, DvBencode(BString(<<"1">>)))),
           BDict(WithEntry(BaseInfo, KeyPieceLength, DvBencode(BNumber(0)))),
           BDict(WithEntry(BaseInfo, KeyPieceLength, DvBencode(BNumber(-1)))),
           BDict(WithEntry(BaseInfo, KeyPieces, DvBytes(<<>>))),
           BDict(WithEntry(BaseInfo, KeyPieces, DvBytes(<< <<"x", "y", "z">> >>))),
           BDict(WithEntry(BaseInfo, KeyPieces, DvBytes(<<HashA, <<"x">> >>))),
           BDict(WithEntry(BaseInfo, KeyPieces, DvBencode(BString(HashA)))),
           BDict(WithEntry(BaseInfo, KeyPieces, DvBencode(BNumber(20)))) }

Announce == Entry(KeyAnnounce, DvBencode(BString(<<"h", ":", "/", "t">>)))

Metainfos ==
    { BDict(<<Entry(KeyInfo, DvBencode(i))>>) : i \in InfoDicts }
    \cup { BDict(<<Announce, Entry(KeyInfo, DvBencode(i))>>) : i \in InfoDicts }
    \cup { BDict(<<Entry(KeyInfo, DvBencode(i)), Announce>>) : i \in InfoDicts }
    \cup { BDict(<<Announce, Entry(KeyInfo, DvBencode(i))>>) :
             i \in MultiFileInfoDicts \cup OddInfoDicts }
    \cup { BDict(<<Entry(KeyInfo, DvBencode(i)), Announce>>) :
             i \in MultiFileInfoDicts }
    \cup { BDict(<<Announce>>), BDict(<<>>),
           BDict(<<Announce, Entry(KeyInfo, DvBencode(BNumber(1)))>>),
           BDict(<<Announce, Entry(KeyInfo, DvBencode(BList(<<>>)))>>),
           BDict(<<Announce, Entry(KeyInfo, DvBytes(<<HashA>>))>>),
           BList(<<BDict(BaseInfo)>>), BString(<<"a">>), BNumber(1) }

NoTorrent == InvalidTorrentFile("none")

TorIdle ==
    /\ torrent = NoTorrent
    /\ info_bytes = <<>>
    /\ info_bytes_again = <<>>

TorInit ==
    /\ ben_pc = "value"
    /\ ben_pred = "torrent"
    /\ ben_value \in Metainfos
    /\ ben_truncated = FALSE
    /\ ben_input = <<>>
    /\ ben_decoded = Err("none")
    /\ ben_output = <<>>
    /\ TorIdle

\* Torrent::try_from on the decoded tree (torrent.rs:106)
tor_project ==
    /\ ben_pc = "decoded"
    /\ ben_decoded.ok
    /\ torrent' = torrent_try_from(ben_decoded.v)
    /\ ben_pc' = "projected"
    /\ UNCHANGED <<ben_pred, ben_value, ben_truncated, ben_input, ben_decoded,
                   ben_output, info_bytes, info_bytes_again>>

\* Torrent::try_from on a tree handed to it directly (TryFrom<Bencode>)
tor_try_from_tree ==
    /\ ben_pc = "value"
    /\ torrent' = torrent_try_from(ben_value)
    /\ ben_pc' = "tree_projected"
    /\ UNCHANGED <<ben_pred, ben_value, ben_truncated, ben_input, ben_decoded,
                   ben_output, info_bytes, info_bytes_again>>

\* Info::to_bytes on the projected Info, as Info::get_hash calls it
tor_info_to_bytes ==
    /\ ben_pc = "projected"
    /\ torrent.ok
    /\ info_bytes' = info_to_bytes(torrent.v.info)
    /\ ben_pc' = "hashed"
    /\ UNCHANGED <<ben_pred, ben_value, ben_truncated, ben_input, ben_decoded,
                   ben_output, torrent, info_bytes_again>>

\* a further call of Info::to_bytes on the same Info
tor_info_to_bytes_again ==
    /\ ben_pc = "hashed"
    /\ info_bytes_again' = info_to_bytes(torrent.v.info)
    /\ ben_pc' = "rehashed"
    /\ UNCHANGED <<ben_pred, ben_value, ben_truncated, ben_input, ben_decoded,
                   ben_output, torrent, info_bytes>>

(***************************************************************************)
(* Tracker response parsing (src/src/tracker.rs, Peer::try_from)           *)
(***************************************************************************)
KeyInterval == <<"i", "n", "t", "e", "r", "v", "a", "l">>
KeyFailure == <<"f", "a", "i", "l", "u", "r", "e">>

\* the value of a byte as a u8, for the bytes peers chunks are made of
U8 ==
    [c \in {"x00", "x01", "x1A", "xA8", "xC0", "xE1", "xFF",
            "1", ":", "a", "b", "c", "d", "e", "i"} |->
        CASE c = "x00" -> 0   [] c = "x01" -> 1   [] c = "x1A" -> 26
          [] c = "xA8" -> 168 [] c = "xC0" -> 192 [] c = "xE1" -> 225
          [] c = "xFF" -> 255 [] c = "1" -> 49    [] c = ":" -> 58
          [] c = "a" -> 97    [] c = "b" -> 98    [] c = "c" -> 99
          [] c = "d" -> 100   [] c = "e" -> 101   [] c = "i" -> 105]

\* Peer::try_from(&[u8]) (peer.rs:22-33)
peer_try_from(value) ==
    IF Len(value) # 6 THEN [ok |-> FALSE, err |-> "UnknownBytesListFormat"]
    ELSE OkVal([ip_addr |-> <<U8[value[1]], U8[value[2]], U8[value[3]], U8[value[4]]>>,
                port |-> U8[value[5]] * 256 + U8[value[6]]])

MalformedTrackerResponse == [ok |-> FALSE, err |-> "MalformedTrackerResponse"]

\* `*n as u64` (tracker.rs:68): the 64 bits of n, kept as the signed number
AsU64(n) == n

\* TrackerService::get_peers from the response bytes on (tracker.rs:61-81):
\* the returned value and the interval the service holds afterwards
get_peers(response, old_interval) ==
    LET dec == from_bytes(response, "tracker")
    IN  IF ~dec.ok THEN [result |-> dec, interval |-> old_interval]
        ELSE IF dec.v.t # "Dict"
        THEN [result |-> MalformedTrackerResponse, interval |-> old_interval]
        ELSE LET iv == IndexMapGet(dec.v.d, KeyInterval)
                 peer_table == IndexMapGet(dec.v.d, KeyPeers)
                 new_interval == IF IsBencode(iv, "Number") THEN AsU64(iv.v.b.n)
                                 ELSE old_interval
             IN  IF peer_table.some /\ peer_table.v.t = "Bytes"
                 THEN IF \E i \in 1..Len(peer_table.v.c) :
                            ~peer_try_from(peer_table.v.c[i]).ok
                      THEN [result |-> Panic, interval |-> new_interval]
                      ELSE [result |-> [ok |-> TRUE,
                                        peers |-> [i \in 1..Len(peer_table.v.c) |->
                                                     peer_try_from(peer_table.v.c[i]).v]],
                            interval |-> new_interval]
                 ELSE [result |-> MalformedTrackerResponse, interval |-> new_interval]

\* Tracker runs: a response tree is written out as the response body and
\* handed to get_peers.
PeerSpec == <<"xC0", "xA8", "x00", "x01", "x1A", "xE1">>

PeersValues ==
    { DvBytes(<<>>), DvBytes(<<PeerSpec>>), DvBytes(<<PeerA, PeerSpec>>),
      DvBytes(<<PeerB, PeerSpec, PeerA>>),
      DvBytes(<< <<"a", "b", "c">> >>),
      DvBytes(<<PeerSpec, <<"x01">> >>),
      DvBencode(BNumber(1)),
      DvBencode(BList(<<>>)),
      DvBencode(BList(<<BDict(<<Entry(<<"i", "p">>, DvBencode(BString(<<"a">>)))>>)>>)) }

IntervalEntries ==
    { <<>>,
      <<Entry(KeyInterval, DvBencode(BNumber(1800)))>>,
      <<Entry(KeyInterval, DvBencode(BNumber(0)))>>,
      <<Entry(KeyInterval, DvBencode(BNumber(-1)))>>,
      <<Entry(KeyInterval, DvBencode(BString(<<"1">>)))>> }

TrackerResponses ==
    { BDict(iv \o <<Entry(KeyPeers, p)>>) : iv \in IntervalEntries, p \in PeersValues }
    \cup { BDict(<<Entry(KeyPeers, p)>> \o iv) : iv \in IntervalEntries, p \in PeersValues }
    \cup { BDict(iv) : iv \in IntervalEntries }
    \cup { BDict(<<Entry(KeyFailure, DvBencode(BString(<<"a">>)))>>),
           BList(<<>>), BNumber(1), BString(<<"a">>) }

NoPeers == [ok |-> FALSE, err |-> "none"]

TrkIdle ==
    /\ interval = 0
    /\ peers_result = NoPeers

TrkInit ==
    /\ ben_pc = "value"
    /\ ben_pred = "tracker"
    /\ ben_value \in TrackerResponses
    /\ ben_truncated = FALSE
    /\ ben_input = <<>>
    /\ ben_decoded = Err("none")
    /\ ben_output = <<>>
    /\ TrkIdle

\* tracker.rs:61-81
trk_get_peers ==
    /\ ben_pc = "encoded"
    /\ ben_decoded' = from_bytes(ben_input, "tracker")
    /\ peers_result' = get_peers(ben_input, interval).result
    /\ interval' = get_peers(ben_input, interval).interval
    /\ ben_pc' = "answered"
    /\ UNCHANGED <<ben_pred, ben_value, ben_truncated, ben_input, ben_output>>

(***************************************************************************)
(* Handshake (PeerConnection::new, src/src/peer.rs)                        *)
(***************************************************************************)
NoPeerConnection == [ok |-> FALSE, err |-> "none"]

\* no frame is exchanged
WireIdle ==
    /\ wire_frames = <<>>
    /\ stream = <<>>
    /\ wire_log = <<>>

HsIdle ==
    /\ hs_pc = "idle"
    /\ info_hash = <<>>
    /\ hs_reply = <<>>
    /\ hs_sent = <<>>
    /\ hs_read = <<>>
    /\ hs_result = NoPeerConnection

\* PEER_ID (peer.rs:13)
PEER_ID == <<"1", "3", "3", "7", "c", "a", "f", "e", "b", "a",
             "b", "e", "d", "e", "a", "d", "b", "e", "e", "f">>

\* b"BitTorrent protocol" (peer.rs:78)
Protocol == <<"B", "i", "t", "T", "o", "r", "r", "e", "n", "t", " ",
              "p", "r", "o", "t", "o", "c", "o", "l">>

\* the size of the handshake buffers (peer.rs:76, 87)
HANDSHAKE_LEN == 68

Zeros(n) == [i \in 1..n |-> "x00"]

\* the handshake with info_hash and peer id exchanged
handshake_buf_swapped(hash) ==
    <<"x13">> \o Protocol \o Zeros(8) \o PEER_ID \o hash

\* the buffer handshake fills (peer.rs:76-80): buf[0] = 19, buf[1..20] the
\* protocol name, buf[20..28] left zero, buf[28..48] the info hash,
\* buf[48..] the local peer id
handshake_buf(hash) ==
    <<"x13">> \o Protocol \o Zeros(8) \o hash \o PEER_ID

\* what the remote peer may answer: a handshake of its own, the same with
\* the first bytes of a message behind it, 68 bytes of anything, or a
\* stream that ends early
RemoteIds == { HashA, Zeros(20) }
InfoHashes == { HashA, HashB, Zeros(20) }
Replies ==
    LET whole == { <<"x13">> \o Protocol \o Zeros(8) \o h \o id :
                     h \in InfoHashes, id \in RemoteIds }
    IN  whole
        \cup { w \o <<"x00", "x00", "x00", "x01", "x01">> : w \in whole }
        \cup { Zeros(HANDSHAKE_LEN), <<>>, <<"x13">> \o Protocol,
               SubSeq(<<"x13">> \o Protocol \o Zeros(8) \o HashB \o HashA, 1,
                      HANDSHAKE_LEN - 1) }

\* what connection.write(&buf) may return: everything written, a part, an error
WriteOutcomes == { [ok |-> TRUE, n |-> HANDSHAKE_LEN], [ok |-> TRUE, n |-> 10],
                   [ok |-> FALSE, n |-> 0] }

HsInit ==
    /\ hs_pc = "start"
    /\ info_hash \in InfoHashes \cup { SubSeq(HashA, 1, 19) }
    /\ hs_reply \in Replies
    /\ hs_sent = <<>>
    /\ hs_read = <<>>
    /\ hs_result = NoPeerConnection

\* peer.rs:76-85: fill the buffer and write it
hs_write ==
    /\ hs_pc = "start"
    /\ IF Len(info_hash) # 20
       THEN \* clone_from_slice asserts equal lengths: the thread panics
            /\ hs_pc' = "aborted"
            /\ hs_result' = [ok |-> FALSE, err |-> "panic"]
            /\ UNCHANGED hs_sent
       ELSE \E w \in WriteOutcomes :
              /\ hs_sent' = SubSeq(handshake_buf(info_hash), 1, w.n)
              /\ IF w.ok /\ w.n = HANDSHAKE_LEN
                 THEN /\ hs_pc' = "written"
                      /\ UNCHANGED hs_result
                 ELSE /\ hs_pc' = "done"
                      /\ hs_result' = [ok |-> FALSE, err |-> "PeerHandshakeFailed"]
    /\ UNCHANGED <<info_hash, hs_reply, hs_read>>

\* peer.rs:87-96 and 65-71: read the reply and keep its last 20 bytes
hs_read_exact ==
    /\ hs_pc = "written"
    /\ IF Len(hs_reply) < HANDSHAKE_LEN
       THEN /\ hs_read' = hs_reply
            /\ hs_result' = [ok |-> FALSE, err |-> "TcpStreamConnectionFailure"]
       ELSE /\ hs_read' = SubSeq(hs_reply, 1, HANDSHAKE_LEN)
            /\ hs_result' = [ok |-> TRUE,
                             peer_id |-> SubSeq(hs_reply, 49, HANDSHAKE_LEN),
                             bitfield |-> None]
    /\ hs_pc' = "done"
    /\ UNCHANGED <<info_hash, hs_reply, hs_sent>>

(***************************************************************************)
(* Peer wire protocol (src/src/peer.rs): message_payload, receive_decode   *)
(* and download_piece run against the byte stream of a connection.  In     *)
(* this part a byte is its value 0..255.                                   *)
(***************************************************************************)
\* u32::to_be_bytes
to_be_bytes(n) ==
    <<n \div 16777216, (n \div 65536) % 256, (n \div 256) % 256, n % 256>>

\* BigEndian::read_u32 on four bytes
read_u32(b) == ((b[1] * 256 + b[2]) * 256 + b[3]) * 256 + b[4]

Take(s, n) == SubSeq(s, 1, n)
Drop(s, n) == SubSeq(s, n + 1, Len(s))

\* the values of the enum PeerMessage (peer.rs:316-338)
Choke == [type |-> "Choke"]
Unchoke == [type |-> "Unchoke"]
Interested == [type |-> "Interested"]
NotInterested == [type |-> "NotInterested"]
Have(index) == [type |-> "Have", index |-> index]
Bitfield(b) == [type |-> "Bitfield", bitfield |-> b]
Request(index, begin, length) ==
    [type |-> "Request", index |-> index, begin |-> begin, length |-> length]
Piece(index, begin, block) ==
    [type |-> "Piece", index |-> index, begin |-> begin, block |-> block]
Cancel(index, begin, length) ==
    [type |-> "Cancel", index |-> index, begin |-> begin, length |-> length]

\* the discriminants of the enum PeerMessage (peer.rs:316-338)
Tag(m) ==
    CASE m.type = "Choke" -> 0
      [] m.type = "Unchoke" -> 1
      [] m.type = "Interested" -> 2
      [] m.type = "NotInterested" -> 3
      [] m.type = "Have" -> 4
      [] m.type = "Bitfield" -> 5
      [] m.type = "Request" -> 6
      [] m.type = "Piece" -> 7
      [] m.type = "Cancel" -> 8

\* peer.rs:148-206
message_payload(m) ==
    CASE m.type = "Choke" -> <<0, 0, 0, 1, 0>>
      [] m.type = "Unchoke" -> <<0, 0, 0, 1, 1>>
      [] m.type = "Interested" -> <<0, 0, 0, 1, 2>>
      [] m.type = "NotInterested" -> <<0, 0, 0, 1, 3>>
      [] m.type = "Have" -> <<0, 0, 0, 5, 4>> \o to_be_bytes(m.index)
      [] m.type = "Bitfield" ->
             to_be_bytes(1 + Len(m.bitfield)) \o <<5>> \o m.bitfield
      [] m.type = "Request" ->
             to_be_bytes(13) \o <<6>> \o to_be_bytes(m.index)
                 \o to_be_bytes(m.begin) \o to_be_bytes(m.length)
      [] m.type = "Piece" ->
             to_be_bytes(9 + Len(m.block)) \o to_be_bytes(m.index)
                 \o to_be_bytes(m.begin) \o m.block
      [] m.type = "Cancel" ->
             to_be_bytes(13) \o <<6>> \o to_be_bytes(m.index)
                 \o to_be_bytes(m.begin) \o to_be_bytes(m.length)

\* a read on a connection that ended: the ? on an io::Error (peer.rs:354-355)
ReadFailure == Err("TcpStreamConnectionFailure")

\* peer.rs:124-128 and 141-145: three read_u32 in a row
read_index_begin_length(type, p) ==
    IF Len(p) < 12 THEN ReadFailure
    ELSE Ok(Some([type |-> type, index |-> read_u32(SubSeq(p, 1, 4)),
                  begin |-> read_u32(SubSeq(p, 5, 8)),
                  length |-> read_u32(SubSeq(p, 9, 12))]),
            Drop(p, 12))

\* receive_decode (peer.rs:98-147) on the unread bytes s of the connection:
\* the outcomes the build can produce, each Ok(message, bytes left unread),
\* an error or a panic.  actual_msg_len - 8 is a u32 subtraction: below zero
\* it panics where overflow checks are compiled in and wraps where they are
\* not, and then the read of close to 2^32 bytes runs into the stream's end.
receive_decode(s) ==
    IF Len(s) < 4 THEN {ReadFailure}
    ELSE
    LET len == read_u32(Take(s, 4))
        body == Drop(s, 4)
    IN  IF len = 0 THEN {Ok(None, body)}
        ELSE IF body = <<>> THEN {ReadFailure}
        ELSE
        LET msg_type == Head(body)
            p == Tail(body)
            actual_msg_len == len - 1
        IN  CASE msg_type = 0 -> {Ok(Some(Choke), p)}
              [] msg_type = 1 -> {Ok(Some(Unchoke), p)}
              [] msg_type = 2 -> {Ok(Some(Interested), p)}
              [] msg_type = 3 -> {Ok(Some(NotInterested), p)}
              [] msg_type = 4 ->
                     IF Len(p) < 4 THEN {ReadFailure}
                     ELSE {Ok(Some(Have(read_u32(Take(p, 4)))), Drop(p, 4))}
              [] msg_type = 5 ->
                     IF Len(p) < actual_msg_len THEN {ReadFailure}
                     ELSE {Ok(Some(Bitfield(Take(p, actual_msg_len))),
                              Drop(p, actual_msg_len))}
              [] msg_type = 6 -> {read_index_begin_length("Request", p)}
              [] msg_type = 7 ->
                     IF Len(p) < 8 THEN {ReadFailure}
                     ELSE IF actual_msg_len < 8 THEN {Panic, ReadFailure}
                     ELSE IF Len(p) < actual_msg_len THEN {ReadFailure}
                     ELSE {Ok(Some(Piece(read_u32(SubSeq(p, 1, 4)),
                                         read_u32(SubSeq(p, 5, 8)),
                                         SubSeq(p, 9, actual_msg_len))),
                              Drop(p, actual_msg_len))}
              [] msg_type = 8 -> {read_index_begin_length("Cancel", p)}
              [] OTHER -> {Err("TcpStreamGarbageReceived")}

\* Bound of the runs.
MaxFrames == 2     \* frames the remote peer sends before it closes the connection

\* The messages the remote peer sends through message_payload
WireMessages ==
    { Choke, Unchoke, Interested, NotInterested, Have(1),
      Bitfield(<<64>>), Bitfield(<<96>>),
      Request(0, 0, PIECE_BLOCK_LEN), Piece(0, 0, <<120>>),
      Cancel(0, 0, PIECE_BLOCK_LEN) }

\* a frame written by message_payload, and a frame given by its length
\* prefix and the bytes after it
EncodedFrame(m) == [msg |-> Some(m), bytes |-> message_payload(m)]
RawFrame(len, body) == [msg |-> None, bytes |-> to_be_bytes(len) \o body]

\* frames as the protocol lays them out: tag 7 in a Piece, tag 8 in a Cancel
PieceFrame(index, begin, block) ==
    RawFrame(9 + Len(block),
             <<7>> \o to_be_bytes(index) \o to_be_bytes(begin) \o block)

WellFormedFrames ==
    { RawFrame(0, <<>>),
      PieceFrame(0, 0, <<120>>),
      PieceFrame(0, PIECE_BLOCK_LEN, <<121>>),
      PieceFrame(1, 0, <<122>>),
      RawFrame(13, <<8>> \o to_be_bytes(0) \o to_be_bytes(0)
                         \o to_be_bytes(PIECE_BLOCK_LEN)) }

\* frames a conforming peer does not send: a Piece whose begin is past every
\* piece of the runs, a Choke and a Have whose length is not the fixed one,
\* a Piece shorter than its two fields, an unknown tag
MalformedFrames ==
    { PieceFrame(0, 3 * PIECE_BLOCK_LEN, <<123>>),
      RawFrame(2, <<0, 99>>),
      RawFrame(1, <<4>>),
      RawFrame(5, <<7, 0, 0, 0, 0>>),
      RawFrame(1, <<9>>) }

WireFrames ==
    {EncodedFrame(m) : m \in WireMessages} \cup WellFormedFrames
        \cup MalformedFrames

WireScripts == UNION { [1..n -> WireFrames] : n \in 0..MaxFrames }

\* the bytes of frames i..Len(frames), as they lie on the connection
RECURSIVE FrameBytes(_, _)
FrameBytes(frames, i) ==
    IF i > Len(frames) THEN <<>>
    ELSE frames[i].bytes \o FrameBytes(frames, i + 1)

WireInit ==
    /\ wire_frames \in WireScripts
    /\ stream = FrameBytes(wire_frames, 1)
    /\ wire_log = <<>>

\* the bytes receive_decode has taken off the connection
Consumed == Len(FrameBytes(wire_frames, 1)) - Len(stream)

WriteEvent(m) == [op |-> "write", msg |-> m]
ReadEvent(at, r) == [op |-> "read", at |-> at, res |-> r]

\* peer.rs:207-218 on the connection: the Interested message is written
wire_download_piece_begin ==
    /\ download_piece_begin
    /\ wire_log' = Append(wire_log, WriteEvent(Interested))
    /\ UNCHANGED <<wire_frames, stream>>

\* peer.rs:220-261, the match on the decoded message
download_piece_arm(m) ==
    CASE m.type = "Bitfield" -> on_bitfield(m.bitfield)
      [] m.type = "Unchoke" -> on_unchoke
      [] m.type = "Piece" -> on_piece(m.index, m.begin, m.block)
      [] OTHER -> UNCHANGED <<pc, requested, piece_received, blocks,
                              bitfield, sent, result>>

\* peer.rs:219-261: one pass of the loop, receive_decode()? and the match
wire_download_piece_loop ==
    /\ pc = "loop"
    /\ \E r \in receive_decode(stream) :
         /\ IF ~r.ok
            THEN /\ pc' = IF r = Panic THEN "aborted" ELSE "returned"
                 /\ result' = r
                 /\ UNCHANGED <<requested, piece_received, blocks, bitfield,
                                sent, stream>>
            ELSE /\ stream' = r.rest
                 /\ IF r.v.some
                    THEN download_piece_arm(r.v.v)
                    ELSE UNCHANGED <<pc, requested, piece_received, blocks,
                                     bitfield, sent, result>>
         /\ wire_log' = wire_log \o <<ReadEvent(Consumed, r)>>
                \o [i \in 1..(Len(sent') - Len(sent)) |->
                       WriteEvent(sent'[Len(sent) + i])]
    /\ UNCHANGED <<info_table, piece_index, odd_frame, wire_frames>>

(***************************************************************************)
(* Claims about download_piece                                             *)
(***************************************************************************)
CeilDiv(a, b) == (a + b - 1) \div b

\* The blocks of a piece as the specification counts them
PieceBlocks == CeilDiv(info_table.piece_length, PIECE_BLOCK_LEN)

SentRequests == SelectSeq(sent, LAMBDA m : m.type = "Request")

RECURSIVE ConcatAscending(_, _)
\* the payloads of the buffered blocks with begin = i * 16384, i = from .. n-1
ConcatAscending(from, n) ==
    IF from >= n THEN <<>>
    ELSE (CHOOSE b \in Range(blocks) : b.begin = from * PIECE_BLOCK_LEN).block
             \o ConcatAscending(from + 1, n)

\* The buffered blocks are the N blocks of the piece, each delivered once
DeliveredPermutation ==
    /\ Len(blocks) = PieceBlocks
    /\ \A b \in Range(blocks) : b.index = piece_index
    /\ {b.begin : b \in Range(blocks)}
         = {i * PIECE_BLOCK_LEN : i \in 0..(PieceBlocks - 1)}

\* The receive loop has ended by its break and the blocks were assembled
Assembled ==
    pc = "returned" /\ (result.ok \/ result.err = "DownloadPieceFailed")

\* C1: when the N distinct blocks of a piece have been delivered, in whatever
\* order, and download_piece has assembled them, it returned Ok with the
\* blocks concatenated in ascending begin order.
C1_ReassemblyAnyOrder ==
    (Assembled /\ DeliveredPermutation)
        => result = [ok |-> TRUE, index |-> piece_index,
                     piece |-> ConcatAscending(0, PieceBlocks)]

\* C2: no Request is written before an Unchoke has been received, and from the
\* first Unchoke on the Requests written are exactly one per block i of the
\* piece, with index = piece_index and begin = i * 16384.
C2_RequestGating ==
    pc # "idle" =>
        /\ ~requested => SentRequests = <<>>
        /\ requested =>
             /\ Len(SentRequests) = PieceBlocks
             /\ \A i \in 0..(PieceBlocks - 1) :
                    /\ SentRequests[i + 1].index = piece_index
                    /\ SentRequests[i + 1].begin = i * PIECE_BLOCK_LEN

\* C3: the number of blocks download_piece requests and waits for is
\* ceil(piece_length / 16384), whatever the file length.
C3_BlockCountIsCeil ==
    /\ pc # "idle" => BlockNumber = PieceBlocks
    /\ requested => Len(SentRequests) = PieceBlocks

\* the length the specification gives block i of piece index
IntendedLength(index, i) ==
    IF /\ index = info_table.npieces - 1
       /\ i = PieceBlocks - 1
       /\ info_table.file_size % PIECE_BLOCK_LEN # 0
    THEN info_table.file_size % PIECE_BLOCK_LEN
    ELSE PIECE_BLOCK_LEN

\* C4: every Request carries 16384 as its length, except that the last block
\* of the last piece carries file_length mod 16384 when that is nonzero.
C4_RequestLength ==
    \A k \in 1..Len(SentRequests) :
        SentRequests[k].length
            = IntendedLength(SentRequests[k].index,
                             SentRequests[k].begin \div PIECE_BLOCK_LEN)

\* Unchoke has been received and every block asked for has been delivered
PeerHasDelivered ==
    /\ requested
    /\ \A k \in 1..Len(SentRequests) :
          \E b \in Range(blocks) :
              b.index = SentRequests[k].index /\ b.begin = SentRequests[k].begin

\* C5: once the peer has sent Unchoke and delivered a Piece for every block it
\* was asked for, download_piece has left its receive loop.
C5_ReturnsWhenDelivered == PeerHasDelivered => pc # "loop"


(***************************************************************************)
(* Claims about the Bencode codec                                          *)
(***************************************************************************)
\* The input of the run is the whole encoding of ben_value and was decoded
DecodedWhole == ben_pc \in {"decoded", "reencoded"} /\ ~ben_truncated

RECURSIVE DistinctKeys(_)
\* v is a value of the data model: no dict of it holds a key twice
DistinctKeys(v) ==
    CASE v.t = "List" -> \A i \in 1..Len(v.l) : DistinctKeys(v.l[i])
      [] v.t = "Dict" ->
            /\ \A i, j \in 1..Len(v.d) : i # j => v.d[i].k # v.d[j].k
            /\ \A i \in 1..Len(v.d) :
                   v.d[i].v.t = "Bencode" => DistinctKeys(v.d[i].v.b)
      [] OTHER -> TRUE

RECURSIVE PiecesShaped(_)
\* In every dict of v an entry holds ByteChunks exactly when its key is
\* pieces, and every chunk of it is 20 bytes wide
PiecesShaped(v) ==
    CASE v.t = "List" -> \A i \in 1..Len(v.l) : PiecesShaped(v.l[i])
      [] v.t = "Dict" ->
            \A i \in 1..Len(v.d) :
                IF v.d[i].v.t = "Bytes"
                THEN /\ v.d[i].k = KeyPieces
                     /\ \A c \in 1..Len(v.d[i].v.c) : Len(v.d[i].v.c[c]) = 20
                ELSE /\ v.d[i].k # KeyPieces
                     /\ PiecesShaped(v.d[i].v.b)
      [] OTHER -> TRUE

\* C6 as stated: every Bencode value of the data model, ByteChunks under any
\* key included, decodes from its encoding (pieces -> 20) to itself with
\* nothing left over.
C6_RoundTripEveryValue ==
    (DecodedWhole /\ ben_pred = "torrent" /\ DistinctKeys(ben_value))
        => ben_decoded = Ok(ben_value, <<>>)

\* C6 amended: the same for every value in which a dict entry holds
\* ByteChunks exactly when its key is pieces, each chunk 20 bytes wide.
C6_RoundTripPiecesShaped ==
    (DecodedWhole /\ ben_pred = "torrent" /\ DistinctKeys(ben_value)
                  /\ PiecesShaped(ben_value))
        => ben_decoded = Ok(ben_value, <<>>)

C6_Witness ==
    /\ DecodedWhole /\ ben_pred = "torrent"
    /\ ben_value.t = "Dict" /\ Len(ben_value.d) = 2
    /\ ben_value.d[1].v.t = "Bytes" /\ Len(ben_value.d[1].v.c) = 2
    /\ ben_value.d[2].v.t = "Bencode"
    /\ PiecesShaped(ben_value)
    /\ ben_decoded = Ok(ben_value, <<>>)

\* The decimal text of the byte-string lengths the runs use, written out
DecimalLiteral(n) ==
    CASE n = 0 -> <<"0">>
      [] n = 6 -> <<"6">>
      [] n = 12 -> <<"1", "2">>
      [] n = 20 -> <<"2", "0">>
      [] n = 40 -> <<"4", "0">>

\* The place of entry i's value in the encoding of the dict ben_value
RECURSIVE EntryEnd(_)
EntryEnd(i) ==
    IF i = 0 THEN 1
    ELSE EntryEnd(i - 1)
           + Len(string_to_bytes(ben_value.d[i].k))
           + Len(IF ben_value.d[i].v.t = "Bencode"
                 THEN to_bytes(ben_value.d[i].v.b)
                 ELSE bytez_to_bytes(ben_value.d[i].v.c))
ValueStart(i) == EntryEnd(i - 1) + Len(string_to_bytes(ben_value.d[i].k)) + 1

\* Entry i of the source dict is a byte string under a byte-mode key whose
\* length is a multiple of the key's width
ByteModeEntry(i) ==
    /\ ben_value.d[i].v.t = "Bytes"
    /\ byte_mode_key(ben_pred, ben_value.d[i].k).some
    /\ Len(Flatten(ben_value.d[i].v.c)) % byte_mode_key(ben_pred, ben_value.d[i].k).v = 0

\* C7: a byte string of length L under a byte-mode key of width W, W | L,
\* decodes to L/W chunks of W bytes holding the payload in order, and the
\* re-encoded dict carries for that key the decimal L, a colon and the
\* payload bytes unchanged.
C7_ByteModeFidelity ==
    (ben_pc = "reencoded" /\ ~ben_truncated /\ ben_value.t = "Dict"
                          /\ DistinctKeys(ben_value))
        => \A i \in 1..Len(ben_value.d) :
              ByteModeEntry(i) =>
                LET payload == Flatten(ben_value.d[i].v.c)
                    W == byte_mode_key(ben_pred, ben_value.d[i].k).v
                    got == ben_decoded.v.d[i].v
                    field == DecimalLiteral(Len(payload)) \o <<":">> \o payload
                IN  /\ got.t = "Bytes"
                    /\ Len(got.c) = Len(payload) \div W
                    /\ \A c \in 1..Len(got.c) : Len(got.c[c]) = W
                    /\ Flatten(got.c) = payload
                    /\ SubSeq(ben_output, ValueStart(i),
                              ValueStart(i) + Len(field) - 1) = field

C7_Witness ==
    /\ ben_pc = "reencoded" /\ ~ben_truncated /\ ben_value.t = "Dict"
    /\ ben_pred = "torrent"
    /\ \E i \in 1..Len(ben_value.d) :
          /\ ByteModeEntry(i)
          /\ ben_value.d[i].v.c = <<HashA \o HashB>>
          /\ ben_decoded.v.d[i].v.c = <<HashA, HashB>>

Keys_of(d) == [i \in 1..Len(d) |-> d[i].k]

\* C8: a dict input with distinct keys decodes to a dict whose keys stand in
\* the order of the input, and encoding that dict again gives the keys in
\* the same order (the bytes of the input).
C8_DictKeyOrder ==
    (ben_pc = "reencoded" /\ ~ben_truncated /\ ben_value.t = "Dict"
                          /\ DistinctKeys(ben_value))
        => /\ ben_decoded.v.t = "Dict"
           /\ Keys_of(ben_decoded.v.d) = Keys_of(ben_value.d)
           /\ ben_output = ben_input

C8_Witness ==
    /\ ben_pc = "reencoded" /\ ~ben_truncated /\ ben_value.t = "Dict"
    /\ Keys_of(ben_value.d) = <<KeyPeers, KeyA>>
    /\ Keys_of(ben_decoded.v.d) = <<KeyPeers, KeyA>>
    /\ ben_output = ben_input

SourceInfo == IndexMapGet(ben_value.d, KeyInfo).v.b

\* The bytes of the info dict inside the .torrent bytes
SourceInfoBytes ==
    LET p == CHOOSE i \in 1..Len(ben_value.d) : ben_value.d[i].k = KeyInfo
    IN  SubSeq(ben_input, ValueStart(p), EntryEnd(p))

CanonicalKeys == <<KeyLength, KeyName, KeyPieceLength, KeyPieces>>

\* The source info dict is a single-file one whose keys length, name,
\* piece length, pieces come in that order
SingleFileInCanonicalOrder ==
    /\ ben_pc \in {"hashed", "rehashed"}
    /\ torrent.v.info.file_type.t = "SingleFile"
    /\ Len(SourceInfo.d) >= 4
    /\ SubSeq(Keys_of(SourceInfo.d), 1, 4) = CanonicalKeys

Hashed == ben_pc \in {"hashed", "rehashed"}

\* what the emitted info bytes decode to
EmittedInfo == from_bytes(info_bytes, "torrent")

\* v is a list of file dicts, each with the keys length, path in this order
IsFilesBlock(v) ==
    /\ v.t = "Bencode" /\ v.b.t = "List"
    /\ \A i \in 1..Len(v.b.l) :
          /\ v.b.l[i].t = "Dict"
          /\ Keys_of(v.b.l[i].d) = <<KeyLength, KeyPath>>

\* every number of the Info is one an i64 holds, so that the emitted
\* integers can be read back
FitsI64(info) ==
    /\ info.piece_length >= 0
    /\ IF info.file_type.t = "SingleFile" THEN info.file_type.length >= 0
       ELSE \A i \in 1..Len(info.file_type.files) :
                info.file_type.files[i].length >= 0

ProjectBytes(m) ==
    LET dec == from_bytes(to_bytes(m), "torrent")
    IN  IF dec.ok THEN torrent_try_from(dec.v) ELSE dec

\* d1 and d2 hold the same entries, in any order
SameEntries(d1, d2) == Len(d1) = Len(d2) /\ Range(d1) = Range(d2)

\* m1 and m2 are metainfo dicts with the same keys and values that differ
\* at most in the order of the keys of the outer dict and of the info dict
Reordered(m1, m2) ==
    /\ m1.t = "Dict" /\ m2.t = "Dict"
    /\ Len(m1.d) = Len(m2.d)
    /\ \A e1 \in Range(m1.d) : \E e2 \in Range(m2.d) :
          /\ e1.k = e2.k
          /\ \/ e1.v = e2.v
             \/ /\ e1.k = KeyInfo
                /\ e1.v.t = "Bencode" /\ e2.v.t = "Bencode"
                /\ e1.v.b.t = "Dict" /\ e2.v.b.t = "Dict"
                /\ SameEntries(e1.v.b.d, e2.v.b.d)

\* C12: every metainfo input with the keys and values of this one, in
\* another order of the sibling keys of the outer dict or of the info dict,
\* projects to an Info whose canonical encoding is the same bytes; and a
\* second call of Info::to_bytes returns the bytes of the first.
C12_InfoHashStability ==
    (Hashed /\ ~ben_truncated) =>
        /\ \A m \in Metainfos :
              Reordered(ben_value, m) =>
                  /\ ProjectBytes(m).ok
                  /\ info_to_bytes(ProjectBytes(m).v.info) = info_bytes
        /\ ben_pc = "rehashed" => info_bytes_again = info_bytes

C12_Witness ==
    /\ ben_pc = "rehashed" /\ ~ben_truncated
    /\ Keys_of(ben_value.d) = <<KeyAnnounce, KeyInfo>>
    /\ Keys_of(SourceInfo.d) = CanonicalKeys
    /\ info_bytes_again = info_bytes
    /\ \E m \in Metainfos :
          /\ Reordered(ben_value, m)
          /\ Keys_of(m.d) = <<KeyInfo, KeyAnnounce>>
          /\ Keys_of(m.d[1].v.b.d) = Reverse(CanonicalKeys)
          /\ info_to_bytes(ProjectBytes(m).v.info) = info_bytes

\* Torrent::try_from has returned
Projected == ben_pc \in {"projected", "tree_projected", "hashed", "rehashed"}

\* the tree Torrent::try_from was called on
ProjectedTree == IF ben_pc = "tree_projected" THEN ben_value ELSE ben_decoded.v

\* the info dict of the projected tree, when it has one
TreeHasInfoDict ==
    /\ ProjectedTree.t = "Dict"
    /\ IsBencode(IndexMapGet(ProjectedTree.d, KeyInfo), "Dict")
TreeInfo == IndexMapGet(ProjectedTree.d, KeyInfo).v.b.d

\* f is a file dict with an Integer length and a path list of Strings
WellTypedFile(f) ==
    /\ f.t = "Dict"
    /\ IsBencode(IndexMapGet(f.d, KeyLength), "Number")
    /\ IsBencode(IndexMapGet(f.d, KeyPath), "List")
    /\ \A s \in Range(IndexMapGet(f.d, KeyPath).v.b.l) : s.t = "String"

WellTypedFiles(d) ==
    /\ IsBencode(IndexMapGet(d, KeyFiles), "List")
    /\ \A f \in Range(IndexMapGet(d, KeyFiles).v.b.l) : WellTypedFile(f)

\* pieces is a ByteChunks value of 20-byte chunks
WellTypedPieces(d) ==
    LET pieces == IndexMapGet(d, KeyPieces)
    IN  /\ pieces.some /\ pieces.v.t = "Bytes"
        /\ \A c \in Range(pieces.v.c) : Len(c) = 20

\* one of the cases C13 lists
IllFormedTree ==
    \/ ~TreeHasInfoDict
    \/ ~IsBencode(IndexMapGet(TreeInfo, KeyName), "String")
    \/ ~IsBencode(IndexMapGet(TreeInfo, KeyPieceLength), "Number")
    \/ ~WellTypedPieces(TreeInfo)
    \/ /\ ~IsBencode(IndexMapGet(TreeInfo, KeyLength), "Number")
       /\ ~WellTypedFiles(TreeInfo)

\* C13: Torrent::try_from returns InvalidTorrentFile, and no Torrent, when
\* the root is not a dict, info is missing or not a dict, name is missing or
\* not a String, piece length is missing or not an Integer, pieces is
\* missing or not a ByteChunks of 20-byte chunks, or neither an Integer
\* length nor a well-typed files list is present.
C13_ProjectionErrors ==
    (Projected /\ IllFormedTree)
        => ~torrent.ok /\ torrent.err = "InvalidTorrentFile"

C13_Witness ==
    /\ ben_pc = "tree_projected"
    /\ TreeHasInfoDict
    /\ IsBencode(IndexMapGet(TreeInfo, KeyName), "String")
    /\ IsBencode(IndexMapGet(TreeInfo, KeyLength), "Number")
    /\ IndexMapGet(TreeInfo, KeyPieces) = Some(DvBytes(<<HashA, <<"x">> >>))
    /\ torrent = InvalidTorrentFile("Invalid file hash.")

\* C14: every Torrent that projection returns comes from an info dict in
\* which exactly one of length and files is present, and whose files, in the
\* multi-file case, all have a nonempty path list; an info dict with both,
\* or with a file whose path list is empty, is not projected to a Torrent.
C14_FileTypeInvariant ==
    (Projected /\ torrent.ok) =>
        /\ IndexMapGet(TreeInfo, KeyLength).some
              # IndexMapGet(TreeInfo, KeyFiles).some
        /\ torrent.v.info.file_type.t = "MultiFile" =>
              \A f \in Range(torrent.v.info.file_type.files) : f.path # <<>>

\* C15: every Info that projection returns has piece_length >= 1 and a
\* nonempty pieces sequence; an info dict with piece length zero or
\* negative, or with an empty pieces string, is not projected to a Torrent.
C15_PieceFieldInvariant ==
    (Projected /\ torrent.ok) =>
        /\ IndexMapGet(TreeInfo, KeyPieceLength).v.b.n >= 1
        /\ torrent.v.info.piece_length # 0
        /\ IndexMapGet(TreeInfo, KeyPieces).v.c # <<>>
        /\ torrent.v.info.pieces # <<>>

(***************************************************************************)
(* Claims about the tracker response                                       *)
(***************************************************************************)
Answered == ben_pc = "answered" /\ ~ben_truncated

\* the peers entry of the response, when it is a byte string
PeersEntry == IndexMapGet(ben_value.d, KeyPeers)
PeersIsByteString ==
    /\ ben_value.t = "Dict"
    /\ PeersEntry.some
    /\ PeersEntry.v.t = "Bytes" \/ PeersEntry.v.b.t = "String"
PeersPayload ==
    IF PeersEntry.v.t = "Bytes" THEN Flatten(PeersEntry.v.c) ELSE PeersEntry.v.b.s

\* the response is a dict whose peers value is a byte string of length 6*N
CompactPeers == PeersIsByteString /\ Len(PeersPayload) % 6 = 0

\* the k-th peer is the one the k-th 6-byte chunk of the payload names
PeerOfChunk(k) ==
    LET at == (k - 1) * 6
    IN  [ip_addr |-> <<U8[PeersPayload[at + 1]], U8[PeersPayload[at + 2]],
                       U8[PeersPayload[at + 3]], U8[PeersPayload[at + 4]]>>,
         port |-> U8[PeersPayload[at + 5]] * 256 + U8[PeersPayload[at + 6]]]

\* get_peers answered with the peers of the payload and stored the interval
PeersReturned ==
    /\ peers_result.ok
    /\ Len(peers_result.peers) = Len(PeersPayload) \div 6
    /\ \A k \in 1..Len(peers_result.peers) : peers_result.peers[k] = PeerOfChunk(k)
    /\ \A n \in 0..1800 :
          IndexMapGet(ben_value.d, KeyInterval) = Some(DvBencode(BNumber(n)))
              => interval = n

\* C16: for a dict response whose peers value is a byte string of length
\* 6*N, get_peers returns the N peers of the 6-byte chunks in order, with
\* address a.b.c.d and port hi*256 + lo, and stores the interval; for every
\* other shape of peers and for a non-dict response it returns
\* MalformedTrackerResponse.
C16_TrackerResponseParsing ==
    Answered =>
        IF CompactPeers THEN PeersReturned
        ELSE peers_result = MalformedTrackerResponse

(***************************************************************************)
(* Claims about the handshake                                              *)
(***************************************************************************)
\* 0x13, "BitTorrent protocol", eight zero bytes, H, the local peer id
ExpectedHandshake ==
    <<"x13", "B", "i", "t", "T", "o", "r", "r", "e", "n", "t", " ",
      "p", "r", "o", "t", "o", "c", "o", "l",
      "x00", "x00", "x00", "x00", "x00", "x00", "x00", "x00">>
    \o info_hash \o PEER_ID

\* C17: for a 20-byte info-hash, PeerConnection::new first writes exactly
\* the 68 bytes 0x13, "BitTorrent protocol", eight zeros, H, the local peer
\* id, then reads exactly 68 bytes and records the last 20 of them as the
\* remote peer id; nothing else is written, and nothing is read before the
\* 68 bytes are written.
C17_HandshakeExchange ==
    Len(info_hash) = 20 =>
        /\ hs_sent = SubSeq(ExpectedHandshake, 1, Len(hs_sent))
        /\ hs_read # <<>> => hs_sent = ExpectedHandshake
        /\ hs_result.ok =>
              /\ Len(hs_sent) = 68 /\ hs_sent = ExpectedHandshake
              /\ Len(hs_read) = 68 /\ hs_read = SubSeq(hs_reply, 1, 68)
              /\ hs_result.peer_id = SubSeq(hs_read, 49, 68)

C17_Witness ==
    /\ hs_pc = "done" /\ hs_result.ok
    /\ info_hash = HashB
    /\ Len(hs_reply) > 68
    /\ SubSeq(hs_reply, 29, 48) = Zeros(20)
    /\ hs_result.peer_id = HashA
    /\ hs_sent = ExpectedHandshake

(***************************************************************************)
(* Further claims about download_piece                                     *)
(***************************************************************************)
\* the call reads a frame with a nonzero length and a tag outside 0..8
ReadsUnknownTag ==
    /\ odd_frame' # odd_frame
    /\ odd_frame'.v.len # 0
    /\ odd_frame'.v.tag \notin 0..8

\* C18: when a frame with nonzero length and a tag outside 0..8 is
\* received, download_piece returns TcpStreamGarbageReceived at once: it
\* sends nothing further and returns no piece data.
C18_UnknownTagIsFatal ==
    [][ReadsUnknownTag =>
          /\ pc' = "returned"
          /\ result' = [ok |-> FALSE, err |-> "TcpStreamGarbageReceived"]
          /\ sent' = sent]_vars

C18_Witness ==
    /\ pc = "returned"
    /\ odd_frame = Some([len |-> 5, tag |-> 9])
    /\ result = [ok |-> FALSE, err |-> "TcpStreamGarbageReceived"]
    /\ requested
    /\ Len(blocks) = 2

\* C19: download_piece returns Ok only after a Piece message has been
\* received, during the call, for every block position i of the piece
\* (begin / 16384 = i, i in 0..block count).
C19_CompletionSafety ==
    (pc = "returned" /\ result.ok)
        => \A i \in 0..(PieceBlocks - 1) :
              /\ i \in piece_received
              /\ \E b \in Range(blocks) : b.begin \div PIECE_BLOCK_LEN = i

RECURSIVE InsertSorted(_, _)
\* the block b put into the ascending sequence s
InsertSorted(s, b) ==
    IF s = <<>> THEN <<b>>
    ELSE IF BlockLess(b, Head(s)) THEN <<b>> \o s
    ELSE <<Head(s)>> \o InsertSorted(Tail(s), b)

RECURSIVE SortBlocks(_)
SortBlocks(s) == IF s = <<>> THEN <<>> ELSE InsertSorted(SortBlocks(Tail(s)), Head(s))

\* the buffered blocks in ascending (index, begin) order
Ascending == SortBlocks(blocks)

\* some position i of the ascending blocks holds a block with begin # i * 16384
Misplaced == \E i \in 1..Len(Ascending) : Ascending[i].begin # (i - 1) * PIECE_BLOCK_LEN

\* C20: after the receive loop download_piece returns DownloadPieceFailed
\* if and only if the buffered blocks, in ascending (index, begin) order,
\* hold at some position i a block with begin # i * 16384; otherwise it
\* returns the concatenation of the blocks in that order.
C20_AssemblyCheck ==
    Assembled =>
        IF Misplaced THEN result = [ok |-> FALSE, err |-> "DownloadPieceFailed"]
        ELSE result = [ok |-> TRUE, index |-> piece_index,
                       piece |-> Flatten([i \in 1..Len(Ascending) |-> Ascending[i].block])]

(***************************************************************************)
(* Claims about the peer wire protocol                                     *)
(***************************************************************************)
\* the event a step appends first to the log of the connection
StepEvent == wire_log'[Len(wire_log) + 1]

\* the step is a pass of download_piece's loop whose receive_decode returned
\* a frame
StepDecodes ==
    /\ Len(wire_log') > Len(wire_log)
    /\ StepEvent.op = "read"
    /\ StepEvent.res.ok

IgnoredTypes ==
    {"Choke", "Interested", "NotInterested", "Have", "Request", "Cancel"}

\* the frame of the step is a keep-alive or one of the ignored messages
StepIgnored ==
    /\ StepDecodes
    /\ \/ ~StepEvent.res.v.some
       \/ StepEvent.res.v.v.type \in IgnoredTypes

StepBitfield ==
    /\ StepDecodes
    /\ StepEvent.res.v.some
    /\ StepEvent.res.v.v.type = "Bitfield"

\* C21: a pass of download_piece's loop that reads a keep-alive or a Choke,
\* Interested, NotInterested, Have, Request or Cancel message changes none of
\* the requested flag, the received-block set, the buffered blocks and the
\* stored bitfield, and writes nothing; a pass that reads a Bitfield message
\* changes only the stored bitfield, which becomes the one just read.
C21_IgnoredMessages ==
    [][ /\ StepIgnored =>
            /\ UNCHANGED <<requested, piece_received, blocks, bitfield, sent>>
            /\ Len(wire_log') = Len(wire_log) + 1
        /\ StepBitfield =>
            /\ UNCHANGED <<requested, piece_received, blocks, sent>>
            /\ Len(wire_log') = Len(wire_log) + 1
            /\ bitfield' = Some(StepEvent.res.v.v.bitfield) ]_vars

\* a Bitfield was read and replaced by a second, different one, or was
\* followed by an ignored message
C21_Witness ==
    /\ Len(wire_log) = 3
    /\ wire_log[2].op = "read" /\ wire_log[2].res.ok /\ wire_log[2].res.v.some
    /\ wire_log[2].res.v.v.type = "Bitfield"
    /\ wire_log[3].op = "read" /\ wire_log[3].res.ok /\ wire_log[3].res.v.some
    /\ wire_log[3].res.v.v.type \in IgnoredTypes \cup {"Bitfield"}
    /\ wire_log[3].res.v.v # wire_log[2].res.v.v
    /\ bitfield.some

\* the positions of the log at which a Request is written
RequestWrites ==
    { i \in 1..Len(wire_log) :
        wire_log[i].op = "write" /\ wire_log[i].msg.type = "Request" }

\* C22: on the connection the Interested message is written before the first
\* read of download_piece, and the Requests of the piece are written one
\* after the other, in ascending begin order, with no read (and no other
\* write) between the first and the last of them.
C22_RequestPipelining ==
    /\ \A i \in 1..Len(wire_log) :
           wire_log[i].op = "read" =>
               \E j \in 1..(i - 1) : wire_log[j] = WriteEvent(Interested)
    /\ \A i \in RequestWrites, j \in RequestWrites :
           i < j =>
               /\ wire_log[i].msg.begin < wire_log[j].msg.begin
               /\ \A k \in i..j : k \in RequestWrites

\* a batch of at least two Requests was written and a frame was read after it
C22_Witness ==
    /\ \E i \in RequestWrites, j \in RequestWrites : i < j
    /\ wire_log[Len(wire_log)].op = "read"
    /\ wire_log[Len(wire_log)].res.ok

\* the first read of a run whose first frame was written by message_payload
FirstReadOfEncoded(i) ==
    /\ wire_log[i].op = "read"
    /\ wire_log[i].at = 0
    /\ Len(wire_frames) >= 1
    /\ wire_frames[1].msg.some

\* C23: for every PeerMessage m, message_payload(m) is a 4-byte big-endian
\* length L followed by exactly L bytes, the first of them the tag of m, and
\* receive_decode on those bytes returns m.
C23_CodecRoundTrip ==
    \A i \in 1..Len(wire_log) :
        FirstReadOfEncoded(i) =>
            LET m == wire_frames[1].msg.v
                bytes == wire_frames[1].bytes
                L == read_u32(Take(bytes, 4))
            IN  /\ Len(bytes) = 4 + L
                /\ bytes[5] = Tag(m)
                /\ wire_log[i].res.ok
                /\ wire_log[i].res.v = Some(m)

\* every frame on the connection is its length prefix L and L bytes after it
FramesWhole ==
    \A k \in 1..Len(wire_frames) :
        Len(wire_frames[k].bytes) = 4 + read_u32(Take(wire_frames[k].bytes, 4))

\* the offsets of the connection at which a frame's length prefix starts
FrameStarts ==
    { Len(FrameBytes(wire_frames, 1)) - Len(FrameBytes(wire_frames, k)) :
        k \in 1..(Len(wire_frames) + 1) }

\* C24: when every frame sent has declared length L and L bytes after the
\* prefix, receive_decode takes exactly 4 + L bytes for each frame, so every
\* call of it starts reading at the length prefix of a frame.
C24_FrameSynchronisation ==
    FramesWhole =>
        \A i \in 1..Len(wire_log) :
            wire_log[i].op = "read" => wire_log[i].at \in FrameStarts

\* C25: every block buffered for the result of download_piece(piece_index),
\* and so every block that marked a position of the received-block set, came
\* from a Piece message whose index field is piece_index.
C25_PieceIdentity ==
    \A i \in 1..Len(blocks) : blocks[i].index = piece_index

\* the bytes of the connection from the offset read event i started at
BytesAt(i) == Drop(FrameBytes(wire_frames, 1), wire_log[i].at)

\* read event i met a frame with tag 7 and a length below 9
ShortPieceRead(i) ==
    /\ wire_log[i].op = "read"
    /\ Len(BytesAt(i)) >= 5
    /\ read_u32(Take(BytesAt(i), 4)) \in 1..8
    /\ BytesAt(i)[5] = 7

\* read event i decoded a Piece whose begin lies in no block of the piece
OutOfRangePieceRead(i) ==
    /\ wire_log[i].op = "read"
    /\ wire_log[i].res.ok
    /\ wire_log[i].res.v.some
    /\ wire_log[i].res.v.v.type = "Piece"
    /\ wire_log[i].res.v.v.begin \div PIECE_BLOCK_LEN >= BlockNumber

\* C26: a Piece frame whose length is below 9, or whose begin lies outside
\* the piece (begin / 16384 >= the computed block count), ends download_piece
\* with an error value: no panic on the received-block set, none on
\* length - 9.
C26_MalformedPieceIsError ==
    \A i \in 1..Len(wire_log) :
        ShortPieceRead(i) \/ OutOfRangePieceRead(i) =>
            /\ pc = "returned"
            /\ ~result.ok
            /\ result # Panic

Init == PeerInit /\ BenIdle /\ TorIdle /\ TrkIdle /\ HsIdle /\ WireIdle

Next ==
    \/ download_piece_begin /\ UNCHANGED <<ben_vars, tor_vars, trk_vars, hs_vars, wire_vars>>
    \/ recv_bitfield /\ UNCHANGED <<ben_vars, tor_vars, trk_vars, hs_vars, wire_vars>>
    \/ recv_unchoke /\ UNCHANGED <<ben_vars, tor_vars, trk_vars, hs_vars, wire_vars>>
    \/ recv_piece /\ UNCHANGED <<ben_vars, tor_vars, trk_vars, hs_vars, wire_vars>>
    \/ recv_other /\ UNCHANGED <<ben_vars, tor_vars, trk_vars, hs_vars, wire_vars>>
    \/ recv_unknown_tag /\ UNCHANGED <<ben_vars, tor_vars, trk_vars, hs_vars, wire_vars>>
    \/ recv_error /\ UNCHANGED <<ben_vars, tor_vars, trk_vars, hs_vars, wire_vars>>

Spec == Init /\ [][Next]_vars

PeerIdle ==
    /\ pc = "done"
    /\ info_table = [piece_length |-> PIECE_BLOCK_LEN,
                     file_size |-> PIECE_BLOCK_LEN, npieces |-> 1]
    /\ piece_index = 0
    /\ requested = FALSE
    /\ piece_received = {}
    /\ blocks = <<>>
    /\ bitfield = None
    /\ sent = <<>>
    /\ result = NoResult
    /\ odd_frame = None

InitBencode == PeerIdle /\ BenInit /\ TorIdle /\ TrkIdle /\ HsIdle /\ WireIdle

NextBencode ==
    \/ ben_encode /\ UNCHANGED <<peer_vars, tor_vars, trk_vars, hs_vars, wire_vars>>
    \/ ben_decode /\ UNCHANGED <<peer_vars, tor_vars, trk_vars, hs_vars, wire_vars>>
    \/ ben_reencode /\ UNCHANGED <<peer_vars, tor_vars, trk_vars, hs_vars, wire_vars>>

SpecBencode == InitBencode /\ [][NextBencode]_vars

InitTorrent == PeerIdle /\ TorInit /\ TrkIdle /\ HsIdle /\ WireIdle

NextTorrent ==
    \/ ben_encode /\ UNCHANGED <<peer_vars, tor_vars, trk_vars, hs_vars, wire_vars>>
    \/ ben_decode /\ UNCHANGED <<peer_vars, tor_vars, trk_vars, hs_vars, wire_vars>>
    \/ tor_project /\ UNCHANGED <<peer_vars, trk_vars, hs_vars, wire_vars>>
    \/ tor_try_from_tree /\ UNCHANGED <<peer_vars, trk_vars, hs_vars, wire_vars>>
    \/ tor_info_to_bytes /\ UNCHANGED <<peer_vars, trk_vars, hs_vars, wire_vars>>
    \/ tor_info_to_bytes_again /\ UNCHANGED <<peer_vars, trk_vars, hs_vars, wire_vars>>

SpecTorrent == InitTorrent /\ [][NextTorrent]_vars

InitTracker == PeerIdle /\ TrkInit /\ TorIdle /\ HsIdle /\ WireIdle

NextTracker ==
    \/ ben_encode /\ UNCHANGED <<peer_vars, tor_vars, trk_vars, hs_vars, wire_vars>>
    \/ trk_get_peers /\ UNCHANGED <<peer_vars, tor_vars, hs_vars, wire_vars>>

SpecTracker == InitTracker /\ [][NextTracker]_vars

InitHandshake == PeerIdle /\ BenIdle /\ TorIdle /\ TrkIdle /\ HsInit /\ WireIdle

NextHandshake ==
    \/ hs_write /\ UNCHANGED <<peer_vars, ben_vars, tor_vars, trk_vars, wire_vars>>
    \/ hs_read_exact /\ UNCHANGED <<peer_vars, ben_vars, tor_vars, trk_vars, wire_vars>>

SpecHandshake == InitHandshake /\ [][NextHandshake]_vars

InitWire == PeerInit /\ BenIdle /\ TorIdle /\ TrkIdle /\ HsIdle /\ WireInit

NextWire ==
    \/ wire_download_piece_begin /\ UNCHANGED <<ben_vars, tor_vars, trk_vars, hs_vars>>
    \/ wire_download_piece_loop /\ UNCHANGED <<ben_vars, tor_vars, trk_vars, hs_vars>>

SpecWire == InitWire /\ [][NextWire]_vars

=============================================================================
